---------------------------- MODULE Spec2Model ----------------------------
(***************************************************************************)
(* A model of the lowering layer (loki/frontend/ofp2ir.py), of the         *)
(* expression mappers (loki/expression/visitors.py) and of the list and    *)
(* string tools (loki/tools/util.py).                                      *)
(*                                                                         *)
(* Every Python value that may be None, a string, a tuple, a list or an    *)
(* IR object is a record with a field k naming its kind, so that values of *)
(* different kinds can be compared.                                        *)
(***************************************************************************)
EXTENDS Integers, Sequences, FiniteSets, TLC

VARIABLES pc, o, lowered, children, ret, indices, variable, base, heap, stmts, expr

VARIABLES dims, exprs, visits, ops, variables, type, query

\* the local variables of the running function of loki/tools/util.py or of
\* the running handler of loops, conditionals and data declarations
VARIABLES frame

\* the state of the expression mappers and of the handlers of declarations
\* and operations
aux == <<dims, exprs, visits, ops, variables, type, query, frame>>

vars == <<pc, o, lowered, children, ret, indices, variable, base, heap, stmts, expr, aux>>

---------------------------------------------------------------------------
(* Python values *)

None == [k |-> "None"]

Str(s) == [k |-> "str", s |-> s]

Tuple(items) == [k |-> "tuple", items |-> items]

List(items) == [k |-> "list", items |-> items]

IsNone(v) == v.k = "None"

AuxIdle ==
    /\ dims = <<>>
    /\ exprs = <<>>
    /\ visits = 0
    /\ ops = <<>>
    /\ variables = <<>>
    /\ type = None
    /\ query = {}
    /\ frame = None

\* tuple(c for c in children if c is not None)
DropNone(seq) == SelectSeq(seq, LAMBDA c : ~IsNone(c))

\* all sequences over S of length at most n
SeqUpTo(S, n) == UNION {[1..m -> S] : m \in 0..n}

---------------------------------------------------------------------------
(* OFP2IR dispatch and the default handler *)

MaxKids == 3

\* An XML element: its tag, the attribute the handlers of the model read
\* (id or value) and its children.
Elem(tag, att, kids) == [tag |-> tag, att |-> att, kids |-> kids]

\* instance.tag.replace('-', '_')
TagKey(tag) ==
    CASE tag = "part-ref" -> "part_ref"
      [] tag = "elsewhere-stmt" -> "elsewhere_stmt"
      [] tag = "end-where-stmt" -> "end_where_stmt"
      [] tag = "data-ref" -> "data_ref"
      [] OTHER -> tag

\* self._handlers: the visit_<tag> methods of OFP2IR the model dispatches to
\* (visit_body is an alias of visit_Element).
Handlers ==
    {"Element", "body", "literal", "part_ref", "elsewhere_stmt", "end_where_stmt", "operator"}

\* GenericVisitor.lookup_method: the handler registered for the class of the
\* instance; every XML node is an Element.
GenericLookup == "Element"

lookup_method(instance) ==
    LET tag == TagKey(instance.tag)
    IN IF tag \in Handlers THEN tag ELSE GenericLookup

visit_literal(n) == [k |-> "Literal", value |-> n.att]

visit_part_ref(n) == Str(n.att)

visit_elsewhere_stmt(n) == Str("ELSEWHERE_CONSTRUCT")

visit_end_where_stmt(n) == Str("ENDWHERE_CONSTRUCT")

\* lines 459-460
visit_operator(n) == Str(n.att)

MutFlattenWraps(kept) ==
    IF Len(kept) > 0 THEN Tuple(kept) ELSE None

MutFlattenFirst(kept) ==
    IF Len(kept) >= 1 THEN kept[1] ELSE None

\* the return of visit_Element, from the children that are not None
Flatten(kept) ==
    IF Len(kept) = 1
    THEN kept[1]
    ELSE IF Len(kept) > 0 THEN Tuple(kept) ELSE None

RECURSIVE visit(_)

LowerChildren(n) == [i \in 1..Len(n.kids) |-> visit(n.kids[i])]

visit_Element(n) == Flatten(DropNone(LowerChildren(n)))

CallHandler(h, n) ==
    CASE h = "literal" -> visit_literal(n)
      [] h = "part_ref" -> visit_part_ref(n)
      [] h = "elsewhere_stmt" -> visit_elsewhere_stmt(n)
      [] h = "end_where_stmt" -> visit_end_where_stmt(n)
      [] h = "operator" -> visit_operator(n)
      [] OTHER -> visit_Element(n)

visit(n) == CallHandler(lookup_method(n), n)

\* The children of the nodes lowered: leaves with and without a handler, and
\* wrappers without a handler around none, one and two of them.
LeafElems ==
    { Elem("literal", "1", <<>>), Elem("literal", "2", <<>>),
      Elem("part-ref", "a", <<>>), Elem("data-ref", "", <<>>) }

ChildElems ==
    LeafElems \cup
    { Elem("expression", "", <<Elem("literal", "1", <<>>)>>),
      Elem("expression", "", <<Elem("literal", "1", <<>>), Elem("part-ref", "a", <<>>)>>),
      Elem("body", "", <<Elem("data-ref", "", <<>>), Elem("literal", "2", <<>>)>>) }

RootTags == {"expression", "body", "literal"}

ElementInputs ==
    { Elem(t, "9", kids) : t \in RootTags, kids \in SeqUpTo(ChildElems, MaxKids) }

Idle ==
    /\ indices = None
    /\ variable = None
    /\ base = None
    /\ heap = <<>>
    /\ stmts = <<>>
    /\ expr = None
    /\ AuxIdle

InitElement ==
    /\ pc = "visit"
    /\ o \in ElementInputs
    /\ lowered = <<>>
    /\ children = <<>>
    /\ ret = None
    /\ Idle

\* visit: a handler of its own returns at once
Dispatch ==
    /\ pc = "visit"
    /\ lookup_method(o) \notin {"Element", "body"}
    /\ ret' = CallHandler(lookup_method(o), o)
    /\ pc' = "done"
    /\ UNCHANGED <<o, lowered, children, indices, variable, base, heap, stmts, expr, aux>>

\* visit_Element, line 66
ElementLower ==
    /\ pc = "visit"
    /\ lookup_method(o) \in {"Element", "body"}
    /\ lowered' = LowerChildren(o)
    /\ children' = LowerChildren(o)
    /\ pc' = "filter"
    /\ UNCHANGED <<o, ret, indices, variable, base, heap, stmts, expr, aux>>

\* visit_Element, line 67
ElementFilter ==
    /\ pc = "filter"
    /\ children' = DropNone(children)
    /\ pc' = "return"
    /\ UNCHANGED <<o, lowered, ret, indices, variable, base, heap, stmts, expr, aux>>

\* visit_Element, lines 68-71
ElementReturn ==
    /\ pc = "return"
    /\ ret' = Flatten(children)
    /\ pc' = "done"
    /\ UNCHANGED <<o, lowered, children, indices, variable, base, heap, stmts, expr, aux>>

NextElement == Dispatch \/ ElementLower \/ ElementFilter \/ ElementReturn

SpecElement == InitElement /\ [][NextElement]_vars

---------------------------------------------------------------------------
(* OFP2IR.visit_name: compound names *)

MaxLeaves == 3

\* A name is the sequence of its characters.
UpperChar(c) ==
    CASE c = "a" -> "A"
      [] c = "b" -> "B"
      [] c = "c" -> "C"
      [] c = "f" -> "F"
      [] c = "q" -> "Q"
      [] c = "r" -> "R"
      [] c = "t" -> "T"
      [] OTHER -> c

\* str.upper()
Upper(s) == [i \in 1..Len(s) |-> UpperChar(s[i])]

\* ['MIN', 'MAX', 'EXP', 'SQRT', 'ABS', 'LOG']
Intrinsics ==
    { <<"M", "I", "N">>, <<"M", "A", "X">>, <<"E", "X", "P">>,
      <<"S", "Q", "R", "T">>, <<"A", "B", "S">>, <<"L", "O", "G">> }

\* a reference to the object heap[id]
Obj(id) == [k |-> "obj", id |-> id]

MutGenerateVariable(vname, ind, node) ==
    IF vname.s \in Intrinsics
    THEN [k |-> "InlineCall", name |-> vname, arguments |-> ind, ref |-> None]
    ELSE IF ~IsNone(ind) /\ Len(ind.items) = 0
         THEN [k |-> "InlineCall", name |-> Str(node.att), arguments |-> ind, ref |-> None]
         ELSE [k |-> "Variable", name |-> vname, dimensions |-> ind, ref |-> None]

\* generate_variable, lines 357-364; the new object has no ref yet
generate_variable(vname, ind, node) ==
    IF Upper(vname.s) \in Intrinsics
    THEN [k |-> "InlineCall", name |-> vname, arguments |-> ind, ref |-> None]
    ELSE IF ~IsNone(ind) /\ Len(ind.items) = 0
         THEN [k |-> "InlineCall", name |-> Str(node.att), arguments |-> ind, ref |-> None]
         ELSE [k |-> "Variable", name |-> vname, dimensions |-> ind, ref |-> None]

MutLinkSelf(h, var, new) ==
    IF IsNone(var)
    THEN h
    ELSE [h EXCEPT ![var.id].ref = var]

MutLinkDrop(h, var, new) == h

\* variable.ref = <the new object>, line 387; nothing on the first leaf
Link(h, var, new) ==
    IF IsNone(var)
    THEN h
    ELSE [h EXCEPT ![var.id].ref = new]

\* if len(_children) > 0 and isinstance(_children[-1], tuple), line 378
TakesIndices(rest) == Len(rest) > 0 /\ rest[Len(rest)].k = "tuple"

Front(seq) == SubSeq(seq, 1, Len(seq) - 1)

Last(seq) == seq[Len(seq)]

LeafNames == { <<"a">>, <<"b">>, <<"c">>, <<"S", "q", "r", "t">> }

IndexExpr == [k |-> "Literal", value |-> "1"]

IndexTuples == { Tuple(<<>>), Tuple(<<IndexExpr>>) }

\* the lowered children of one part of a name: its index tuple, if it has
\* one, and then its part-ref
Groups ==
    { <<Str(nm)>> : nm \in LeafNames } \cup
    { <<t, Str(nm)>> : t \in IndexTuples, nm \in LeafNames }

RECURSIVE Chains(_)

Chains(n) ==
    IF n = 0 THEN {<<>>} ELSE { g \o c : g \in Groups, c \in Chains(n - 1) }

NameInputs ==
    { c \o tail : c \in UNION { Chains(n) : n \in 0..MaxLeaves },
                  tail \in {<<>>, <<None>>} }

NameNode == Elem("name", <<"f">>, <<>>)

InitName ==
    /\ pc = "name"
    /\ o = NameNode
    /\ lowered \in NameInputs
    /\ children = <<>>
    /\ ret = None
    /\ Idle

\* lines 368-375
NameStart ==
    /\ pc = "name"
    /\ children' = DropNone(lowered)
    /\ indices' = None
    /\ variable' = None
    /\ base' = None
    /\ pc' = "loop"
    /\ UNCHANGED <<o, lowered, ret, heap, stmts, expr, aux>>

MutNameIterCarries ==
    /\ pc = "loop"
    /\ Len(children) > 0
    /\ LET item == Last(children)
           rest == Front(children)
           take == TakesIndices(rest)
           ind == IF take THEN Last(rest) ELSE indices
           new == Obj(Len(heap) + 1)
       IN /\ children' = IF take THEN Front(rest) ELSE rest
          /\ heap' = Append(Link(heap, variable, new), generate_variable(item, ind, o))
          /\ base' = IF IsNone(variable) THEN new ELSE base
          /\ variable' = new
          /\ indices' = ind
    /\ UNCHANGED <<pc, o, lowered, ret, stmts, expr, aux>>

\* one iteration of the loop, lines 376-390
NameIter ==
    /\ pc = "loop"
    /\ Len(children) > 0
    /\ LET item == Last(children)
           rest == Front(children)
           take == TakesIndices(rest)
           ind == IF take THEN Last(rest) ELSE indices
           new == Obj(Len(heap) + 1)
       IN /\ children' = IF take THEN Front(rest) ELSE rest
          /\ heap' = Append(Link(heap, variable, new), generate_variable(item, ind, o))
          /\ base' = IF IsNone(variable) THEN new ELSE base
          /\ variable' = new
          /\ indices' = None
    /\ UNCHANGED <<pc, o, lowered, ret, stmts, expr, aux>>

\* line 391
NameReturn ==
    /\ pc = "loop"
    /\ Len(children) = 0
    /\ ret' = base
    /\ pc' = "done"
    /\ UNCHANGED <<o, lowered, children, indices, variable, base, heap, stmts, expr, aux>>

NextName == NameStart \/ NameIter \/ NameReturn

SpecName == InitName /\ [][NextName]_vars

---------------------------------------------------------------------------
(* OFP2IR.visit_statement: WHERE constructs *)

MaxChildren == 5

IsStr(v, s) == v.k = "str" /\ v.s = s

IsMarker(v) == IsStr(v, "ELSEWHERE_CONSTRUCT") \/ IsStr(v, "ENDWHERE_CONSTRUCT")

\* x in seq
Has(seq, s) == \E i \in 1..Len(seq) : IsStr(seq[i], s)

\* seq.index(x), counted from 1
Index(seq, s) ==
    CHOOSE i \in 1..Len(seq) :
        IsStr(seq[i], s) /\ \A j \in 1..(i - 1) : ~IsStr(seq[j], s)

\* as_tuple, lines 19-44 of loki/tools/util.py, without type and length
as_tuple(item) ==
    IF IsNone(item)
    THEN Tuple(<<>>)
    ELSE IF item.k = "str"
         THEN Tuple(<<item>>)
         ELSE IF item.k \in {"list", "tuple"}
              THEN Tuple(item.items)
              ELSE Tuple(<<item>>)

MaskedStatement(condition, body, default) ==
    [k |-> "MaskedStatement", condition |-> condition, body |-> body, default |-> default]

MutWherePartition(ch) ==
    LET iend == Index(ch, "ENDWHERE_CONSTRUCT")
        w_children == SubSeq(ch, 1, iend - 1)
    IN IF Has(w_children, "ELSEWHERE_CONSTRUCT")
       THEN LET iw == Index(w_children, "ELSEWHERE_CONSTRUCT")
            IN MaskedStatement(w_children[1],
                               List(SubSeq(w_children, 2, iw - 1)),
                               List(SubSeq(w_children, iw, Len(w_children))))
       ELSE MaskedStatement(w_children[1],
                            List(SubSeq(w_children, 2, Len(w_children))),
                            List(SubSeq(w_children, 2, Len(w_children))))

\* the MaskedStatement of the first partition, lines 137-149
WherePartition(ch) ==
    LET iend == Index(ch, "ENDWHERE_CONSTRUCT")
        w_children == SubSeq(ch, 1, iend - 1)
    IN IF Has(w_children, "ELSEWHERE_CONSTRUCT")
       THEN LET iw == Index(w_children, "ELSEWHERE_CONSTRUCT")
            IN MaskedStatement(w_children[1],
                               List(SubSeq(w_children, 2, iw - 1)),
                               List(SubSeq(w_children, iw, Len(w_children))))
       ELSE MaskedStatement(w_children[1],
                            List(SubSeq(w_children, 2, Len(w_children))),
                            Tuple(<<>>))

MutWhereRest(ch) == <<>>

\* children[iend+1:], line 150
WhereRest(ch) ==
    SubSeq(ch, Index(ch, "ENDWHERE_CONSTRUCT") + 1, Len(ch))

Stmt(id) == [k |-> "Statement", id |-> id]

WhereAlphabet ==
    { Stmt("s1"), Stmt("s2"), None,
      Str("ELSEWHERE_CONSTRUCT"), Str("ENDWHERE_CONSTRUCT") }

\* Every WHERE block begins with its mask: the element that opens the
\* partition closed by an ENDWHERE marker is no marker.
WellFormedWhere(ch) ==
    \A i \in 1..Len(ch) :
        IsStr(ch[i], "ENDWHERE_CONSTRUCT") =>
            /\ i > 1
            /\ \A p \in 1..i :
                   (p = 1 \/ IsStr(ch[p - 1], "ENDWHERE_CONSTRUCT")) => ~IsMarker(ch[p])

WhereInputs ==
    { s \in SeqUpTo(WhereAlphabet, MaxChildren) : WellFormedWhere(DropNone(s)) }

WhereNode == Elem("statement", "", <<>>)

InitWhere ==
    /\ pc = "where"
    /\ o = WhereNode
    /\ lowered \in WhereInputs
    /\ children = <<>>
    /\ ret = None
    /\ Idle

\* lines 132-135
WhereStart ==
    /\ pc = "where"
    /\ children' = DropNone(lowered)
    /\ stmts' = <<>>
    /\ pc' = "where_loop"
    /\ UNCHANGED <<o, lowered, ret, indices, variable, base, heap, expr, aux>>

\* one iteration of the loop, lines 136-150
WhereIter ==
    /\ pc = "where_loop"
    /\ Has(children, "ENDWHERE_CONSTRUCT")
    /\ stmts' = Append(stmts, WherePartition(children))
    /\ children' = WhereRest(children)
    /\ UNCHANGED <<pc, o, lowered, ret, indices, variable, base, heap, expr, aux>>

\* line 153
WhereReturn ==
    /\ pc = "where_loop"
    /\ ~Has(children, "ENDWHERE_CONSTRUCT")
    /\ ret' = as_tuple(List(stmts))
    /\ pc' = "done"
    /\ UNCHANGED <<o, lowered, children, indices, variable, base, heap, stmts, expr, aux>>

NextWhere == WhereStart \/ WhereIter \/ WhereReturn

SpecWhere == InitWhere /\ [][NextWhere]_vars

---------------------------------------------------------------------------
(* ExpressionDimensionsMapper.map_range_index *)

MaxBound == 10

MaxBelow == 1

MaxStep == 2

IntLiteral(v) == [k |-> "IntLiteral", value |-> v]

RangeIndex(lower, upper, step) ==
    [k |-> "RangeIndex", lower |-> lower, upper |-> upper, step |-> step]

Raise(exc) == [k |-> "raise", exc |-> exc]

\* Python's //: the floor of the quotient, for either sign of the divisor
FloorDiv(a, b) == IF b > 0 THEN a \div b ELSE (0 - a) \div (0 - b)

MutMapRangeIndex(e) ==
    IF IsNone(e.lower) /\ IsNone(e.upper)
    THEN as_tuple(e)
    ELSE IF IsNone(e.upper)
         THEN Raise("TypeError")
         ELSE LET lower == IF ~IsNone(e.lower) THEN e.lower.value - 1 ELSE 1
                  step == IF ~IsNone(e.step) THEN e.step.value ELSE 1
              IN as_tuple(IntLiteral(FloorDiv(e.upper.value - lower, step)))

\* lines 185-191. (expr.upper - lower) // step is the quotient expression
\* over the literals; the model keeps the integer it denotes. An absent
\* upper beside a lower makes None - int, a TypeError.
map_range_index(e) ==
    IF IsNone(e.lower) /\ IsNone(e.upper)
    THEN as_tuple(e)
    ELSE IF IsNone(e.upper)
         THEN Raise("TypeError")
         ELSE LET lower == IF ~IsNone(e.lower) THEN e.lower.value - 1 ELSE 0
                  step == IF ~IsNone(e.step) THEN e.step.value ELSE 1
              IN as_tuple(IntLiteral(FloorDiv(e.upper.value - lower, step)))

Bounds == {None} \cup { IntLiteral(v) : v \in (0 - MaxBelow)..MaxBound }

Steps == {None} \cup { IntLiteral(v) : v \in ((0 - MaxStep)..MaxStep) \ {0} }

DimInputs == { RangeIndex(l, u, s) : l \in Bounds, u \in Bounds, s \in Steps }

InitDim ==
    /\ pc = "dim"
    /\ o = None
    /\ lowered = <<>>
    /\ children = <<>>
    /\ ret = None
    /\ indices = None
    /\ variable = None
    /\ base = None
    /\ heap = <<>>
    /\ stmts = <<>>
    /\ expr \in DimInputs
    /\ AuxIdle

\* lines 186-187
DimColon ==
    /\ pc = "dim"
    /\ IsNone(expr.lower) /\ IsNone(expr.upper)
    /\ ret' = map_range_index(expr)
    /\ pc' = "done"
    /\ UNCHANGED <<o, lowered, children, indices, variable, base, heap, stmts, expr, aux>>

\* lines 188-191
DimExtent ==
    /\ pc = "dim"
    /\ ~(IsNone(expr.lower) /\ IsNone(expr.upper))
    /\ ret' = map_range_index(expr)
    /\ pc' = "done"
    /\ UNCHANGED <<o, lowered, children, indices, variable, base, heap, stmts, expr, aux>>

NextDim == DimColon \/ DimExtent

SpecDim == InitDim /\ [][NextDim]_vars

---------------------------------------------------------------------------
(* ExpressionDimensionsMapper.map_array *)

MaxRank == 2

Scalar(name) == [k |-> "Scalar", name |-> name]

Array(name, dimensions, shape) ==
    [k |-> "Array", name |-> name, dimensions |-> dimensions, shape |-> shape]

\* lines 162-169: literals and scalars have the shape (1,)
map_algebraic_leaf(e) == as_tuple(IntLiteral(1))

\* self.rec(d) for a subscript d
DimRec(d) ==
    IF d.k = "RangeIndex" THEN map_range_index(d) ELSE map_algebraic_leaf(d)

\* line 176: [self.rec(d)[0] for d in expr.dimensions]
DimsOf(ds) == [i \in 1..Len(ds) |-> DimRec(ds[i]).items[1]]

\* line 178: expr.shape or [None] * len(dims)
ShapeOr(shape, n) ==
    IF IsNone(shape) \/ Len(shape.items) = 0
    THEN [i \in 1..n |-> None]
    ELSE shape.items

IsColon(d) == d.k = "RangeIndex" /\ IsNone(d.lower) /\ IsNone(d.upper)

ShorterLen(a, b) == IF Len(a) < Len(b) THEN Len(a) ELSE Len(b)

MutColonByShape(ds, shape) ==
    [i \in 1..ShorterLen(ds, shape) |-> ds[i]]

\* lines 179-180: zip stops at the shorter of dims and shape
ColonByShape(ds, shape) ==
    [i \in 1..ShorterLen(ds, shape) |-> IF IsColon(ds[i]) THEN shape[i] ELSE ds[i]]

\* line 182
DropSingleton(ds) == SelectSeq(ds, LAMBDA d : d # IntLiteral(1))

\* the subscripts whose mapping raises
Raising(ds) == { i \in 1..Len(ds) : DimRec(ds[i]).k = "raise" }

\* the declared shapes of rank n: (10, 20, ...), and the same with the
\* extent 1 in the first or in the last place
Shapes(n) ==
    { Tuple([i \in 1..n |-> IntLiteral(10 * i)]),
      Tuple([i \in 1..n |-> IF i = 1 THEN IntLiteral(1) ELSE IntLiteral(10 * i)]),
      Tuple([i \in 1..n |-> IF i = n THEN IntLiteral(1) ELSE IntLiteral(10 * i)]) }

\* the subscripts of the references

Subscripts ==
    { RangeIndex(None, None, None), IntLiteral(3), IntLiteral(5), Scalar("i"),
      RangeIndex(None, IntLiteral(5), None),
      RangeIndex(IntLiteral(2), IntLiteral(5), None),
      RangeIndex(IntLiteral(3), IntLiteral(3), None),
      RangeIndex(IntLiteral(1), IntLiteral(10), IntLiteral(2)),
      RangeIndex(IntLiteral(2), None, None) }

ArrayInputs ==
    UNION { { Array("a", d, s) :
                d \in {None} \cup { Tuple(x) : x \in [1..n -> Subscripts] },
                s \in {None} \cup Shapes(n) } : n \in 1..MaxRank }

InitArray ==
    /\ pc = "array"
    /\ o = None
    /\ lowered = <<>>
    /\ children = <<>>
    /\ ret = None
    /\ indices = None
    /\ variable = None
    /\ base = None
    /\ heap = <<>>
    /\ stmts = <<>>
    /\ expr \in ArrayInputs
    /\ AuxIdle

\* lines 172-173
ArrayNoDims ==
    /\ pc = "array"
    /\ IsNone(expr.dimensions)
    /\ ret' = expr.shape
    /\ pc' = "done"
    /\ UNCHANGED <<o, lowered, children, indices, variable, base, heap, stmts, expr, aux>>

\* line 176, a subscript whose mapping raises ends the call
ArrayRaise ==
    /\ pc = "array"
    /\ ~IsNone(expr.dimensions)
    /\ Raising(expr.dimensions.items) # {}
    /\ ret' = DimRec(expr.dimensions.items[
                  CHOOSE i \in Raising(expr.dimensions.items) :
                      \A j \in Raising(expr.dimensions.items) : i <= j])
    /\ pc' = "done"
    /\ UNCHANGED <<o, lowered, children, indices, variable, base, heap, stmts, expr, aux>>

\* line 176
ArrayRec ==
    /\ pc = "array"
    /\ ~IsNone(expr.dimensions)
    /\ Raising(expr.dimensions.items) = {}
    /\ dims' = DimsOf(expr.dimensions.items)
    /\ pc' = "array_colon"
    /\ UNCHANGED <<o, lowered, children, ret, indices, variable, base, heap, stmts, expr,
                   exprs, visits, ops, variables, type, query, frame>>

\* lines 178-180
ArrayColon ==
    /\ pc = "array_colon"
    /\ dims' = ColonByShape(dims, ShapeOr(expr.shape, Len(dims)))
    /\ pc' = "array_filter"
    /\ UNCHANGED <<o, lowered, children, ret, indices, variable, base, heap, stmts, expr,
                   exprs, visits, ops, variables, type, query, frame>>

\* lines 182-183
ArrayFilter ==
    /\ pc = "array_filter"
    /\ dims' = DropSingleton(dims)
    /\ ret' = as_tuple(List(DropSingleton(dims)))
    /\ pc' = "done"
    /\ UNCHANGED <<o, lowered, children, indices, variable, base, heap, stmts, expr,
                   exprs, visits, ops, variables, type, query, frame>>

NextArray == ArrayNoDims \/ ArrayRaise \/ ArrayRec \/ ArrayColon \/ ArrayFilter

SpecArray == InitArray /\ [][NextArray]_vars

---------------------------------------------------------------------------
(* ExpressionRetriever *)

MaxArgs == 2

MaxVisits == 2

\* a member of a derived type: a scalar with a parent
Member(name, parent) == [k |-> "Scalar", name |-> name, parent |-> parent]

Cast(function, parameters, kind) ==
    [k |-> "Cast", function |-> function, parameters |-> parameters, kind |-> kind]

Sum(ch) == [k |-> "Sum", children |-> ch]

LiteralList(elements) == [k |-> "LiteralList", elements |-> elements]

\* isinstance(v, pmbl.Expression)
IsExpression(v) == v.k \notin {"None", "str", "tuple", "list"}

\* A collected node is the path that leads to it from the root: the numbers
\* of the children taken, the absent ones not counted.
\* lines 105-107, self.query being the test for the kinds in query
post_visit(e, p) == IF e.k \in query THEN <<p>> ELSE <<>>

\* the bounds of a range that are there, in the order lower, upper, step
Present(e) == SelectSeq(<<e.lower, e.upper, e.step>>, LAMBDA b : ~IsNone(b))

RECURSIVE rec(_, _)

RECURSIVE RecEach(_, _, _)

\* for d in kids: self.rec(d), from the i-th on
RecEach(kids, p, i) ==
    IF i > Len(kids)
    THEN <<>>
    ELSE rec(kids[i], Append(p, i)) \o RecEach(kids, p, i + 1)

\* WalkMapper.map_variable and WalkMapper.map_constant, lines 109, 118-121:
\* visit, then post_visit
retr_map_leaf(e, p) == post_visit(e, p)

MutRetrMapArray(e, p) ==
    post_visit(e, p) \o
        (IF ~IsNone(e.dimensions) /\ Len(e.dimensions.items) > 0
         THEN RecEach(e.dimensions.items, p, 1)
         ELSE <<>>)

\* lines 111-116
retr_map_array(e, p) ==
    (IF ~IsNone(e.dimensions) /\ Len(e.dimensions.items) > 0
     THEN RecEach(e.dimensions.items, p, 1)
     ELSE <<>>) \o post_visit(e, p)

\* lines 124-130
retr_map_cast(e, p) ==
    RecEach(e.parameters \o (IF IsExpression(e.kind) THEN <<e.kind>> ELSE <<>>), p, 1)
        \o post_visit(e, p)

\* WalkMapper.map_sum, lines 132-135: visit, every child, post_visit
retr_map_sum(e, p) == RecEach(e.children, p, 1) \o post_visit(e, p)

\* lines 137-145
retr_map_range_index(e, p) == RecEach(Present(e), p, 1) \o post_visit(e, p)

\* lines 147-151: self.visit(elem) is the hook that returns True; it neither
\* descends into the element nor tests it
retr_map_literal_list(e, p) == post_visit(e, p)

rec(e, p) ==
    CASE e.k = "Array" -> retr_map_array(e, p)
      [] e.k = "Cast" -> retr_map_cast(e, p)
      [] e.k = "Sum" -> retr_map_sum(e, p)
      [] e.k = "RangeIndex" -> retr_map_range_index(e, p)
      [] e.k = "LiteralList" -> retr_map_literal_list(e, p)
      [] OTHER -> retr_map_leaf(e, p)

Atoms == { Scalar("i"), IntLiteral(1), Member("c", Scalar("b")) }

RetrRanges ==
    { RangeIndex(l, u, s) : l \in {None, Scalar("i")}, u \in {None, Scalar("i")},
                            s \in {None, IntLiteral(1)} }

RetrArrays ==
    { Array("a", None, None) } \cup
    { Array("a", Tuple(ds), None) :
        ds \in UNION { [1..n -> Atoms \cup { RangeIndex(None, None, None),
                                             RangeIndex(IntLiteral(1), Scalar("i"), None) }]
                       : n \in 1..MaxArgs } }

RetrCasts ==
    { Cast(Str("real"), <<x>>, kd) : x \in Atoms, kd \in {None, Str("8"), Scalar("jprb")} }

RetrLists ==
    { LiteralList(es) :
        es \in UNION { [1..n -> {IntLiteral(1), IntLiteral(2)}] : n \in 1..MaxArgs } }

SmallTerms ==
    Atoms \cup
    { Array("a", Tuple(<<Scalar("i")>>), None), Array("a", Tuple(<<IntLiteral(1)>>), None),
      LiteralList(<<IntLiteral(1), IntLiteral(2)>>),
      Cast(Str("real"), <<Scalar("i")>>, Scalar("jprb")) }

RetrInputs ==
    Atoms \cup RetrRanges \cup RetrArrays \cup RetrCasts \cup RetrLists \cup
    { Sum(<<x, y>>) : x \in SmallTerms, y \in SmallTerms }

Kinds == {"Scalar", "Array", "IntLiteral", "RangeIndex", "Cast", "Sum", "LiteralList"}

\* the queries: every node, the references to variables, the integer literals
Queries == { Kinds, {"Scalar", "Array"}, {"IntLiteral"} }

\* ExpressionRetriever(query), lines 99-103
InitRetriever ==
    /\ pc = "retrieve"
    /\ o = None
    /\ lowered = <<>>
    /\ children = <<>>
    /\ ret = None
    /\ indices = None
    /\ variable = None
    /\ base = None
    /\ heap = <<>>
    /\ stmts = <<>>
    /\ expr \in RetrInputs
    /\ dims = <<>>
    /\ exprs = <<>>
    /\ visits = 0
    /\ ops = <<>>
    /\ variables = <<>>
    /\ type = None
    /\ query \in Queries
    /\ frame = None

\* one call retriever(expr) on an expression of kind kd
Retrieve(kd) ==
    /\ pc = "retrieve"
    /\ visits < MaxVisits
    /\ expr.k = kd
    /\ exprs' = exprs \o rec(expr, <<>>)
    /\ visits' = visits + 1
    /\ UNCHANGED <<pc, o, lowered, children, ret, indices, variable, base, heap, stmts,
                   expr, dims, ops, variables, type, query, frame>>

RetrieveLeaf == Retrieve("Scalar") \/ Retrieve("IntLiteral")

RetrieveArray == Retrieve("Array")

RetrieveCast == Retrieve("Cast")

RetrieveSum == Retrieve("Sum")

RetrieveRange == Retrieve("RangeIndex")

RetrieveList == Retrieve("LiteralList")

NextRetriever ==
    \/ RetrieveLeaf
    \/ RetrieveArray
    \/ RetrieveCast
    \/ RetrieveSum
    \/ RetrieveRange
    \/ RetrieveList

SpecRetriever == InitRetriever /\ [][NextRetriever]_vars

---------------------------------------------------------------------------
(* ExpressionCallbackMapper *)

\* an inline call; kw_parameters is the ordered dict as its <<key, value>> pairs
Call(function, parameters, kw_parameters) ==
    [k |-> "InlineCall", function |-> function, parameters |-> parameters,
     kw_parameters |-> kw_parameters]

StringConcat(ch) == [k |-> "StringConcat", children |-> ch]

StringLiteral(value) == [k |-> "StringLiteral", value |-> value]

\* the symbol in Cast.function
FunctionSymbol(name) == [k |-> "FunctionSymbol", name |-> name]

\* The callback and the combinator are the caller's; the model keeps the
\* terms they are applied to.
callback(e) == [k |-> "callback", node |-> e]

combine(results) == [k |-> "combine", args |-> results]

\* kw_parameters.values()
Values(kw) == [i \in 1..Len(kw) |-> kw[i][2]]

RECURSIVE fold(_)

\* tuple(self.rec(ch) for ch in kids)
FoldEach(kids) == [i \in 1..Len(kids) |-> fold(kids[i])]

\* lines 204-212
fold_map_constant(e) == callback(e)

\* the fold of the symbol in Cast.function: a leaf
fold_map_function_symbol(e) == callback(e)

\* lines 214-217
fold_map_inline_call(e) ==
    combine(FoldEach(e.parameters) \o FoldEach(Values(e.kw_parameters)))

MutFoldMapCast(e) ==
    LET kind == IF ~IsNone(e.kind) /\ IsExpression(e.kind)
                THEN <<fold(e.kind)>> ELSE <<>>
    IN combine(kind \o <<fold(e.function), fold(e.parameters[1])>>)

\* lines 219-225
fold_map_cast(e) ==
    LET kind == IF ~IsNone(e.kind) /\ IsExpression(e.kind)
                THEN <<fold(e.kind)>> ELSE <<>>
    IN combine(<<fold(e.function), fold(e.parameters[1])>> \o kind)

\* lines 227-231
fold_map_range_index(e) ==
    LET lower == IF ~IsNone(e.lower) THEN <<fold(e.lower)>> ELSE <<>>
        upper == IF ~IsNone(e.upper) THEN <<fold(e.upper)>> ELSE <<>>
        step == IF ~IsNone(e.step) THEN <<fold(e.step)>> ELSE <<>>
    IN combine(lower \o upper \o step)

\* CombineMapper.map_sum, lines 233-236: combine over the folded children
fold_map_sum(e) == combine(FoldEach(e.children))

\* lines 238-239
fold_map_literal_list(e) == combine(FoldEach(e.elements))

fold(e) ==
    CASE e.k = "InlineCall" -> fold_map_inline_call(e)
      [] e.k = "Cast" -> fold_map_cast(e)
      [] e.k = "RangeIndex" -> fold_map_range_index(e)
      [] e.k \in {"Sum", "StringConcat"} -> fold_map_sum(e)
      [] e.k = "LiteralList" -> fold_map_literal_list(e)
      [] e.k = "FunctionSymbol" -> fold_map_function_symbol(e)
      [] OTHER -> fold_map_constant(e)

FoldLeaves ==
    { Scalar("i"), IntLiteral(1), StringLiteral("s"),
      Array("a", Tuple(<<Scalar("i")>>), None) }

FoldRanges ==
    { RangeIndex(l, u, s) : l \in {None, IntLiteral(1)}, u \in {None, Scalar("i")},
                            s \in {None, IntLiteral(2)} }

FoldCasts ==
    { Cast(FunctionSymbol("real"), <<x>>, kd) :
        x \in FoldLeaves, kd \in {None, Str("8"), Scalar("jprb")} }

FoldCalls ==
    { Call(FunctionSymbol("f"), ps, kw) :
        ps \in SeqUpTo({Scalar("i"), IntLiteral(1)}, MaxArgs),
        kw \in { <<>>, << <<"x", Scalar("i")>> >>,
                 << <<"x", IntLiteral(1)>>, <<"y", Scalar("i")>> >> } }

FoldLists ==
    { LiteralList(es) :
        es \in UNION { [1..n -> {IntLiteral(1), IntLiteral(2)}] : n \in 1..MaxArgs } }

FoldTerms ==
    FoldLeaves \cup
    { RangeIndex(IntLiteral(1), Scalar("i"), None),
      Cast(FunctionSymbol("real"), <<Scalar("i")>>, Scalar("jprb")),
      Call(FunctionSymbol("f"), <<IntLiteral(1)>>, << <<"x", Scalar("i")>> >>),
      LiteralList(<<IntLiteral(1), IntLiteral(2)>>) }

FoldInputs ==
    FoldLeaves \cup FoldRanges \cup FoldCasts \cup FoldCalls \cup FoldLists \cup
    { Sum(<<x, y>>) : x \in FoldTerms, y \in FoldTerms } \cup
    { StringConcat(<<x, y>>) : x \in {StringLiteral("s"), Scalar("i")},
                               y \in {StringLiteral("s"), Scalar("i")} }

\* ExpressionCallbackMapper(callback, combine), lines 199-202
InitFold ==
    /\ pc = "fold"
    /\ o = None
    /\ lowered = <<>>
    /\ children = <<>>
    /\ ret = None
    /\ indices = None
    /\ variable = None
    /\ base = None
    /\ heap = <<>>
    /\ stmts = <<>>
    /\ expr \in FoldInputs
    /\ AuxIdle

\* one call mapper(expr) on an expression whose kind is among kds
Fold(kds) ==
    /\ pc = "fold"
    /\ expr.k \in kds
    /\ ret' = fold(expr)
    /\ pc' = "done"
    /\ UNCHANGED <<o, lowered, children, indices, variable, base, heap, stmts, expr, aux>>

FoldLeaf == Fold({"Scalar", "IntLiteral", "StringLiteral", "Array"})

FoldCall == Fold({"InlineCall"})

FoldCast == Fold({"Cast"})

FoldRange == Fold({"RangeIndex"})

FoldSum == Fold({"Sum"})

FoldConcat == Fold({"StringConcat"})

FoldList == Fold({"LiteralList"})

NextFold ==
    FoldLeaf \/ FoldCall \/ FoldCast \/ FoldRange \/ FoldSum \/ FoldConcat \/ FoldList

SpecFold == InitFold /\ [][NextFold]_vars

---------------------------------------------------------------------------
(* OFP2IR.visit_operation *)

MaxOperands == 3

Operation(operators, operands, parenthesis) ==
    [k |-> "Operation", ops |-> operators, operands |-> operands,
     parenthesis |-> parenthesis]

\* o.findall(tag): the children with that tag, in document order
findall(n, tag) == SelectSeq(n.kids, LAMBDA c : c.tag = tag)

\* o.find(tag) is not None
HasChild(n, tag) == Len(findall(n, tag)) > 0

\* [self.visit(c) for c in elems]
VisitAll(elems) == [i \in 1..Len(elems) |-> visit(elems[i])]

OperatorElems == { Elem("operator", op, <<>>) : op \in {"+", "-", "*"} }

\* operands around a literal and a name, and the empty operand
OperandElems ==
    { Elem("operand", "", <<Elem("literal", "1", <<>>)>>),
      Elem("operand", "", <<Elem("part-ref", "a", <<>>)>>),
      Elem("operand", "", <<>>) }

\* the children of a unary operation: the operator and its operand
UnaryKids == { <<op, x>> : op \in OperatorElems, x \in OperandElems }

\* the children of an operation with n operands: operands and operators in turn
MultiaryKids(n) ==
    { [i \in 1..(2 * n - 1) |-> IF i % 2 = 1 THEN xs[(i + 1) \div 2] ELSE os[i \div 2]] :
        xs \in [1..n -> OperandElems], os \in [1..(n - 1) -> OperatorElems] }

OperationKids == UnaryKids \cup UNION { MultiaryKids(n) : n \in 1..MaxOperands }

OperationInputs ==
    { Elem("operation", "", kids) : kids \in OperationKids } \cup
    { Elem("operation", "", Append(kids, Elem("parenthesized_expr", "", <<>>))) :
        kids \in OperationKids }

InitOperation ==
    /\ pc = "operation"
    /\ o \in OperationInputs
    /\ lowered = <<>>
    /\ children = <<>>
    /\ ret = None
    /\ Idle

\* line 450
OperationOps ==
    /\ pc = "operation"
    /\ ops' = VisitAll(findall(o, "operator"))
    /\ pc' = "ops_filter"
    /\ UNCHANGED <<o, lowered, children, ret, indices, variable, base, heap, stmts, expr,
                   dims, exprs, visits, variables, type, query, frame>>

\* line 451
OperationOpsFilter ==
    /\ pc = "ops_filter"
    /\ ops' = DropNone(ops)
    /\ pc' = "operands"
    /\ UNCHANGED <<o, lowered, children, ret, indices, variable, base, heap, stmts, expr,
                   dims, exprs, visits, variables, type, query, frame>>

\* line 452
OperationExprs ==
    /\ pc = "operands"
    /\ exprs' = VisitAll(findall(o, "operand"))
    /\ pc' = "operands_filter"
    /\ UNCHANGED <<o, lowered, children, ret, indices, variable, base, heap, stmts, expr,
                   dims, ops, visits, variables, type, query, frame>>

\* line 453
OperationExprsFilter ==
    /\ pc = "operands_filter"
    /\ exprs' = DropNone(exprs)
    /\ pc' = "operation_return"
    /\ UNCHANGED <<o, lowered, children, ret, indices, variable, base, heap, stmts, expr,
                   dims, ops, visits, variables, type, query, frame>>

\* lines 454-457
OperationReturn ==
    /\ pc = "operation_return"
    /\ ret' = Operation(ops, exprs, HasChild(o, "parenthesized_expr"))
    /\ pc' = "done"
    /\ UNCHANGED <<o, lowered, children, indices, variable, base, heap, stmts, expr, aux>>

NextOperation ==
    \/ OperationOps
    \/ OperationOpsFilter
    \/ OperationExprs
    \/ OperationExprsFilter
    \/ OperationReturn

SpecOperation == InitOperation /\ [][NextOperation]_vars

---------------------------------------------------------------------------
(* OFP2IR.visit_declaration *)

MaxVars == 2

\* An XML element whose attributes are read by key: attrib is the set of its
\* <<key, value>> pairs.
XElem(tag, attrib, kids) == [tag |-> tag, attrib |-> attrib, kids |-> kids]

\* key in o.attrib
HasAttr(n, key) == \E kv \in n.attrib : kv[1] = key

\* o.attrib[key]
Attr(n, key) == (CHOOSE kv \in n.attrib : kv[1] = key)[2]

\* o.find(tag)
find(n, tag) == findall(n, tag)[1]

\* the truth value of an element: whether it has children
Truthy(n) == Len(n.kids) > 0

Intrinsic == [k |-> "Intrinsic"]

BaseType(name, kind, intent, allocatable, pointer, optional, parameter, target) ==
    [k |-> "BaseType", name |-> name, kind |-> kind, intent |-> intent,
     allocatable |-> allocatable, pointer |-> pointer, optional |-> optional,
     parameter |-> parameter, target |-> target]

\* Variable(name=..., dimensions=..., initial=...): no type yet
Variable(name, dimensions, initial) ==
    [k |-> "Variable", name |-> name, dimensions |-> dimensions,
     initial |-> initial, type |-> None]

Declaration(vs, t, dimensions) ==
    [k |-> "Declaration", variables |-> vs, type |-> t, dimensions |-> dimensions]

\* lines 425-440 (visit_dimension = visit_subscript, line 442): a child
\* element counts only when it has children of its own
visit_subscript(n) ==
    IF HasChild(n, "range") /\ Truthy(find(n, "range"))
    THEN RangeIndex(visit(find(find(n, "range"), "lower-bound")),
                    visit(find(find(n, "range"), "upper-bound")),
                    None)
    ELSE IF HasChild(n, "name") /\ Truthy(find(n, "name"))
    THEN visit(find(n, "name"))
    ELSE IF HasChild(n, "literal") /\ Truthy(find(n, "literal"))
    THEN visit(find(n, "literal"))
    ELSE IF HasChild(n, "operation") /\ Truthy(find(n, "operation"))
    THEN visit(find(n, "operation"))
    ELSE IF HasChild(n, "array-constructor-values")
            /\ Truthy(find(n, "array-constructor-values"))
    THEN visit(find(n, "array-constructor-values"))
    ELSE RangeIndex(None, None, None)

\* lines 397-401: the dimension children are all dimension elements
VariableDimensions(n) ==
    IF HasChild(n, "dimensions")
    THEN LET ds == find(n, "dimensions").kids
         IN  Tuple(DropNone([i \in 1..Len(ds) |-> visit_subscript(ds[i])]))
    ELSE None

\* lines 393-403, for a variable without initial value
visit_variable(n) ==
    IF ~HasAttr(n, "id") /\ ~HasAttr(n, "name")
    THEN None
    ELSE Variable(Str(IF HasAttr(n, "id") THEN Attr(n, "id") ELSE Attr(n, "name")),
                  VariableDimensions(n), None)

MutIsIntrinsicStmt(n) == HasChild(n, "save-stmt")

\* lines 187-193
IsIntrinsicStmt(n) ==
    HasChild(n, "save-stmt") \/ HasChild(n, "implicit-stmt") \/ HasChild(n, "access-spec")

\* lines 251-262
TypeOf(n) ==
    LET t == find(n, "type")
        kind == IF HasChild(t, "kind") /\ Truthy(find(t, "kind"))
                THEN Str(Attr(find(find(t, "kind"), "name"), "id"))
                ELSE None
        intent == IF HasChild(n, "intent") /\ Truthy(find(n, "intent"))
                  THEN Str(Attr(find(n, "intent"), "type"))
                  ELSE None
    IN BaseType(Str(Attr(t, "name")), kind, intent,
                HasChild(n, "attribute-allocatable"), HasChild(n, "attribute-pointer"),
                HasChild(n, "attribute-optional"), HasChild(n, "attribute-parameter"),
                HasChild(n, "attribute-target"))

\* o.findall('variables/variable')
VariableElems(n) ==
    IF HasChild(n, "variables") THEN findall(find(n, "variables"), "variable") ELSE <<>>

\* the results of a list that are objects, up to the i-th
NumObjects(results, i) == Cardinality({ j \in 1..i : ~IsNone(results[j]) })

MutPatch(obj, t) == obj

\* line 267
Patch(obj, t) == [obj EXCEPT !.type = t]

\* d == other for a RangeIndex d, RangeIndex.__eq__ of
\* loki/expression/symbol_types.py: a trivial range 1:v is equal to v
\* (line 269 of ofp2ir.py: "Flatten trivial dimension to variables
\* (eg. `1:v` - > `v`)"), and no other range is equal to its upper bound
RangeEq(d, other) ==
    /\ d.lower.k = "Literal"
    /\ d.lower.value = "1"
    /\ IsNone(d.step)
    /\ d.upper = other

MutFlattenDim(d) == IF d.k = "RangeIndex" THEN d.upper ELSE d

\* line 270, one dimension
FlattenDim(d) == IF d.k = "RangeIndex" /\ RangeEq(d, d.upper) THEN d.upper ELSE d

\* lines 268-271
FlattenDims(obj) ==
    IF IsNone(obj.dimensions)
    THEN obj
    ELSE [obj EXCEPT !.dimensions =
              Tuple([i \in 1..Len(obj.dimensions.items) |->
                        FlattenDim(obj.dimensions.items[i])])]

DeclAttribs ==
    { {}, {<<"line", "1">>},
      {<<"type", "variable">>}, {<<"type", "implicit">>}, {<<"type", "intrinsic">>},
      {<<"type", "external">>} }

\* the statement inside the declaration, if any
DeclStmts ==
    { <<>>, <<Elem("save-stmt", "", <<>>)>>, <<Elem("implicit-stmt", "", <<>>)>>,
      <<Elem("access-spec", "", <<>>)>> }

DeclTypes ==
    { <<>>,
      <<XElem("type", {<<"name", "REAL">>}, <<>>)>>,
      <<XElem("type", {<<"name", "REAL">>},
              <<XElem("kind", {}, <<XElem("name", {<<"id", "jprb">>}, <<>>)>>)>>)>> }

\* the attributes of the declaration: none, an intent written with and
\* without a child element, allocatable
DeclAttrs ==
    { <<>>,
      <<XElem("intent", {<<"type", "in">>}, <<Elem("intent-spec", "", <<>>)>>)>>,
      <<XElem("intent", {<<"type", "in">>}, <<>>)>>,
      <<Elem("attribute-allocatable", "", <<>>)>> }

VarElems ==
    { XElem("variable", {<<"id", "x">>}, <<>>), XElem("variable", {<<"name", "y">>}, <<>>),
      XElem("variable", {}, <<>>) }

DeclVars ==
    { <<>> } \cup
    { <<XElem("variables", {}, vs)>> : vs \in SeqUpTo(VarElems, MaxVars) \ { <<>> } }

\* the most dimensions of a variable
MaxDims == 2

\* the ranges 1:1, 1:5, 1:n, 5:5, 5:n
DimRanges ==
    { Elem("dimension", "",
           <<Elem("range", "", <<Elem("lower-bound", "", <<l>>),
                                 Elem("upper-bound", "", <<u>>)>>)>>) :
        l \in { Elem("literal", "1", <<>>), Elem("literal", "5", <<>>) },
        u \in { Elem("literal", "1", <<>>), Elem("literal", "5", <<>>),
                Elem("part-ref", "n", <<>>) } }
        \ { Elem("dimension", "",
                 <<Elem("range", "", <<Elem("lower-bound", "", <<Elem("literal", "5", <<>>)>>),
                                       Elem("upper-bound", "", <<Elem("literal", "1", <<>>)>>)>>)>>) }

\* a range, a literal with a kind, a literal without children, and the
\* dimension ":"
DimElems ==
    DimRanges \cup
    { Elem("dimension", "", <<Elem("literal", "5", <<Elem("kind-param", "", <<>>)>>)>>),
      Elem("dimension", "", <<Elem("literal", "5", <<>>)>>),
      Elem("dimension", "", <<>>) }

\* a variable with dimensions
DimVarElems ==
    { XElem("variable", {<<"id", "x">>}, <<Elem("dimensions", "", ds)>>) :
        ds \in SeqUpTo(DimElems, MaxDims) }

\* the most pairs of variables and values of a data declaration, and the
\* deepest nesting of the literals of a values element
MaxPairs == 2

MaxNest == 3

\* a literal per depth, the outermost being "1"
DepthValue(i) == <<"1", "2", "3", "4", "5">>[i]

\* literals nested from depth i to depth d, none for i > d
RECURSIVE Nest(_, _)
Nest(i, d) ==
    IF i > d THEN <<>> ELSE <<Elem("literal", DepthValue(i), Nest(i + 1, d))>>

DataPairs ==
    { <<XElem("variables", {}, <<XElem("variable", {<<"name", nm>>}, <<>>)>>),
        Elem("values", "", Nest(1, d))>> :
        nm \in {"x", "y"}, d \in 0..MaxNest }

RECURSIVE DataKids(_)
DataKids(n) ==
    IF n = 0 THEN {<<>>} ELSE { p \o rest : p \in DataPairs, rest \in DataKids(n - 1) }

DataInputs ==
    { XElem("declaration", {<<"type", "data">>}, kids) :
        kids \in UNION { DataKids(n) : n \in 1..MaxPairs } }

\* Declarations of derived types (lines 195-247) are not among the inputs.
DeclInputs ==
    { XElem("declaration", a, st \o ty \o at \o vs) :
        a \in DeclAttribs, st \in DeclStmts, ty \in DeclTypes, at \in DeclAttrs,
        vs \in DeclVars }
    \cup
    { XElem("declaration", {<<"type", "variable">>},
            <<XElem("type", {<<"name", "REAL">>}, <<>>), XElem("variables", {}, <<v>>)>>) :
        v \in DimVarElems }
    \cup DataInputs

InitDecl ==
    /\ pc = "declaration"
    /\ o \in DeclInputs
    /\ lowered = <<>>
    /\ children = <<>>
    /\ ret = None
    /\ Idle

Unassigned == <<o, lowered, indices, variable, base, stmts, expr,
                dims, exprs, visits, ops, query, frame>>

\* lines 185-186
DeclEmpty ==
    /\ pc = "declaration"
    /\ o.attrib = {}
    /\ ret' = None
    /\ pc' = "done"
    /\ UNCHANGED <<Unassigned, children, heap, variables, type>>

\* lines 187-193
DeclIntrinsicStmt ==
    /\ pc = "declaration"
    /\ o.attrib # {}
    /\ IsIntrinsicStmt(o)
    /\ ret' = Intrinsic
    /\ pc' = "done"
    /\ UNCHANGED <<Unassigned, children, heap, variables, type>>

\* line 194: o.attrib['type'] without the key
DeclKeyError ==
    /\ pc = "declaration"
    /\ o.attrib # {}
    /\ ~IsIntrinsicStmt(o)
    /\ ~HasAttr(o, "type")
    /\ ret' = Raise("KeyError")
    /\ pc' = "done"
    /\ UNCHANGED <<Unassigned, children, heap, variables, type>>

\* line 251: o.find('type') is None
DeclAttributeError ==
    /\ pc = "declaration"
    /\ o.attrib # {}
    /\ ~IsIntrinsicStmt(o)
    /\ HasAttr(o, "type") /\ Attr(o, "type") = "variable"
    /\ ~HasChild(o, "end-type-stmt")
    /\ ~HasChild(o, "type")
    /\ ret' = Raise("AttributeError")
    /\ pc' = "done"
    /\ UNCHANGED <<Unassigned, children, heap, variables, type>>

\* lines 251-262: the one type descriptor of the declaration
DeclType ==
    /\ pc = "declaration"
    /\ o.attrib # {}
    /\ ~IsIntrinsicStmt(o)
    /\ HasAttr(o, "type") /\ Attr(o, "type") = "variable"
    /\ ~HasChild(o, "end-type-stmt")
    /\ HasChild(o, "type")
    /\ heap' = Append(heap, TypeOf(o))
    /\ type' = Obj(Len(heap) + 1)
    /\ pc' = "decl_variables"
    /\ UNCHANGED <<Unassigned, children, ret, variables>>

\* line 263
DeclVariables ==
    /\ pc = "decl_variables"
    /\ LET results == [i \in 1..Len(VariableElems(o)) |-> visit_variable(VariableElems(o)[i])]
       IN /\ heap' = heap \o DropNone(results)
          /\ variables' = [i \in 1..Len(results) |->
                              IF IsNone(results[i]) THEN None
                              ELSE Obj(Len(heap) + NumObjects(results, i))]
    /\ pc' = "decl_filter"
    /\ UNCHANGED <<Unassigned, children, ret, type>>

\* lines 264 and 266: the list without None, and the loop over it
DeclFilter ==
    /\ pc = "decl_filter"
    /\ variables' = DropNone(variables)
    /\ children' = DropNone(variables)
    /\ pc' = "decl_patch"
    /\ UNCHANGED <<Unassigned, ret, heap, type>>

\* lines 266-271, one variable
DeclPatch ==
    /\ pc = "decl_patch"
    /\ Len(children) > 0
    /\ heap' = [heap EXCEPT ![children[1].id] =
                                FlattenDims(Patch(heap[children[1].id], type))]
    /\ children' = Tail(children)
    /\ UNCHANGED <<Unassigned, pc, ret, variables, type>>

\* lines 273-276
DeclReturn ==
    /\ pc = "decl_patch"
    /\ Len(children) = 0
    /\ ret' = Declaration(variables, type, None)
    /\ pc' = "done"
    /\ UNCHANGED <<Unassigned, children, heap, variables, type>>

\* lines 277-280
DeclIntrinsic ==
    /\ pc = "declaration"
    /\ o.attrib # {}
    /\ ~IsIntrinsicStmt(o)
    /\ HasAttr(o, "type") /\ Attr(o, "type") \in {"implicit", "intrinsic"}
    /\ ret' = Intrinsic
    /\ pc' = "done"
    /\ UNCHANGED <<Unassigned, children, heap, variables, type>>

\* lines 296-297
DeclUnknown ==
    /\ pc = "declaration"
    /\ o.attrib # {}
    /\ ~IsIntrinsicStmt(o)
    /\ HasAttr(o, "type")
    /\ Attr(o, "type") \notin {"variable", "implicit", "intrinsic", "data"}
    /\ ret' = Raise("NotImplementedError")
    /\ pc' = "done"
    /\ UNCHANGED <<Unassigned, children, heap, variables, type>>

DataDeclaration(var, values) ==
    [k |-> "DataDeclaration", variable |-> var, values |-> values]

\* self.visit(variables), line 284: the default handler over the variable
\* children
VisitVariables(n) ==
    Flatten(DropNone([i \in 1..Len(n.kids) |-> visit_variable(n.kids[i])]))

\* zip(o.findall('variables'), o.findall('values')), line 283
NumPairs(n) ==
    IF Len(findall(n, "variables")) < Len(findall(n, "values"))
    THEN Len(findall(n, "variables"))
    ELSE Len(findall(n, "values"))

DataFrame(p, var, lit, vals, declarations) ==
    [k |-> "frame", p |-> p, variable |-> var, lit |-> lit, vals |-> vals,
     declarations |-> declarations]

IsData ==
    /\ o.attrib # {}
    /\ ~IsIntrinsicStmt(o)
    /\ HasAttr(o, "type") /\ Attr(o, "type") = "data"

\* lines 281-282
DataStart ==
    /\ pc = "declaration"
    /\ IsData
    /\ frame' = DataFrame(1, None, None, <<>>, <<>>)
    /\ pc' = "data_pair"
    /\ UNCHANGED <<o, lowered, children, ret, indices, variable, base, heap, stmts, expr,
                   dims, exprs, visits, ops, variables, type, query>>

\* lines 283-286: the next pair, whose values element has a literal
DataPair ==
    /\ pc = "data_pair"
    /\ frame.p <= NumPairs(o)
    /\ HasChild(findall(o, "values")[frame.p], "literal")
    /\ frame' = [frame EXCEPT
                    !.variable = VisitVariables(findall(o, "variables")[frame.p]),
                    !.lit = find(findall(o, "values")[frame.p], "literal"),
                    !.vals = <<>>]
    /\ pc' = "data_while"
    /\ UNCHANGED <<o, lowered, children, ret, indices, variable, base, heap, stmts, expr,
                   dims, exprs, visits, ops, variables, type, query>>

\* lines 285, 287: lit is None, and None has no find
DataNoLiteral ==
    /\ pc = "data_pair"
    /\ frame.p <= NumPairs(o)
    /\ ~HasChild(findall(o, "values")[frame.p], "literal")
    /\ ret' = Raise("AttributeError")
    /\ pc' = "done"
    /\ UNCHANGED <<o, lowered, children, indices, variable, base, heap, stmts, expr, aux>>

\* lines 287-289
DataUnwrap ==
    /\ pc = "data_while"
    /\ HasChild(frame.lit, "literal")
    /\ frame' = [frame EXCEPT !.vals = frame.vals \o <<visit(frame.lit)>>,
                              !.lit = find(frame.lit, "literal")]
    /\ UNCHANGED <<pc, o, lowered, children, ret, indices, variable, base, heap, stmts,
                   expr, dims, exprs, visits, ops, variables, type, query>>

MutDataAppend ==
    /\ pc = "data_while"
    /\ ~HasChild(frame.lit, "literal")
    /\ frame' = [frame EXCEPT
                    !.declarations = frame.declarations
                        \o <<DataDeclaration(frame.variable, List(frame.vals))>>,
                    !.p = frame.p + 1]
    /\ pc' = "data_pair"
    /\ UNCHANGED <<o, lowered, children, ret, indices, variable, base, heap, stmts, expr,
                   dims, exprs, visits, ops, variables, type, query>>

\* lines 287, 290-291
DataAppend ==
    /\ pc = "data_while"
    /\ ~HasChild(frame.lit, "literal")
    /\ frame' = [frame EXCEPT
                    !.vals = frame.vals \o <<visit(frame.lit)>>,
                    !.declarations = frame.declarations
                        \o <<DataDeclaration(frame.variable,
                                              List(frame.vals \o <<visit(frame.lit)>>))>>,
                    !.p = frame.p + 1]
    /\ pc' = "data_pair"
    /\ UNCHANGED <<o, lowered, children, ret, indices, variable, base, heap, stmts, expr,
                   dims, exprs, visits, ops, variables, type, query>>

\* line 295
DataReturn ==
    /\ pc = "data_pair"
    /\ frame.p > NumPairs(o)
    /\ ret' = Tuple(frame.declarations)
    /\ pc' = "done"
    /\ UNCHANGED <<o, lowered, children, indices, variable, base, heap, stmts, expr, aux>>

NextDecl ==
    \/ DataStart
    \/ DataPair
    \/ DataNoLiteral
    \/ DataUnwrap
    \/ DataAppend
    \/ DataReturn
    \/ DeclEmpty
    \/ DeclIntrinsicStmt
    \/ DeclKeyError
    \/ DeclAttributeError
    \/ DeclType
    \/ DeclVariables
    \/ DeclFilter
    \/ DeclPatch
    \/ DeclReturn
    \/ DeclIntrinsic
    \/ DeclUnknown

SpecDecl == InitDecl /\ [][NextDecl]_vars

---------------------------------------------------------------------------
(* LokiStringifyMapper: string literals and range indices *)

MaxStr == 5

\* A text is the sequence of its characters.
Quote == "'"

DigitChar(d) ==
    CASE d = 0 -> "0" [] d = 1 -> "1" [] d = 2 -> "2" [] d = 3 -> "3" [] d = 4 -> "4"
      [] d = 5 -> "5" [] d = 6 -> "6" [] d = 7 -> "7" [] d = 8 -> "8" [] OTHER -> "9"

RECURSIVE Decimal(_)

\* str(n) for an integer
Decimal(n) ==
    IF n < 0 THEN <<"-">> \o Decimal(0 - n)
    ELSE IF n < 10 THEN <<DigitChar(n)>>
    ELSE Decimal(n \div 10) \o <<DigitChar(n % 10)>>

RECURSIVE QuotesFrom(_, _)

\* the number of consecutive quotes of s from position i on
QuotesFrom(s, i) ==
    IF i > Len(s) \/ s[i] # Quote THEN 0 ELSE 1 + QuotesFrom(s, i + 1)

\* line 19: the length of the match of ((?<!')'(?:'')*(?!')) at position i,
\* 0 without a match. The match begins at a quote that follows no quote,
\* takes pairs of quotes and must end before a character that is no quote:
\* it is the whole run of quotes, if the run has an odd length.
MatchAt(s, i) ==
    IF s[i] = Quote /\ (i = 1 \/ s[i - 1] # Quote) /\ QuotesFrom(s, i) % 2 = 1
    THEN QuotesFrom(s, i)
    ELSE 0

RECURSIVE MutRegexSub(_, _)

MutRegexSub(s, i) ==
    IF i > Len(s) THEN <<>>
    ELSE IF s[i] = Quote
         THEN <<Quote, Quote>> \o MutRegexSub(s, i + 1)
         ELSE <<s[i]>> \o MutRegexSub(s, i + 1)

RECURSIVE RegexSub(_, _)

\* line 36: _regex_string_literal.sub(r"'\1", value), from position i on
RegexSub(s, i) ==
    IF i > Len(s) THEN <<>>
    ELSE IF MatchAt(s, i) > 0
         THEN <<Quote>> \o SubSeq(s, i, i + MatchAt(s, i) - 1)
                  \o RegexSub(s, i + MatchAt(s, i))
         ELSE <<s[i]>> \o RegexSub(s, i + 1)

\* lines 35-36
map_string_literal(e) == <<Quote>> \o RegexSub(e.value, 1) \o <<Quote>>

\* lines 24-25, 33, 38-43: an integer literal and a scalar without parent
strf_rec(e) == IF e.k = "IntLiteral" THEN Decimal(e.value) ELSE e.name

MutStrfMapRangeIndex(e) ==
    LET lower == IF ~IsNone(e.lower) THEN strf_rec(e.lower) ELSE <<>>
        upper == IF ~IsNone(e.upper) THEN strf_rec(e.upper) ELSE <<>>
    IN lower \o <<":">> \o upper

\* lines 70-76
strf_map_range_index(e) ==
    LET lower == IF ~IsNone(e.lower) THEN strf_rec(e.lower) ELSE <<>>
        upper == IF ~IsNone(e.upper) THEN strf_rec(e.upper) ELSE <<>>
    IN IF ~IsNone(e.step)
       THEN lower \o <<":">> \o upper \o <<":">> \o strf_rec(e.step)
       ELSE lower \o <<":">> \o upper

StringValues == SeqUpTo({"a", Quote}, MaxStr)

StrfRanges ==
    { RangeIndex(l, u, st) :
        l \in { None, Scalar(<<"s", "t", "a", "r", "t">>), IntLiteral(2) },
        u \in { None, Scalar(<<"e", "n", "d">>), Scalar(<<"n", "z">>) },
        st \in { None, IntLiteral(2), IntLiteral(10) } }

StrfInputs == { StringLiteral(v) : v \in StringValues } \cup StrfRanges

InitStringify ==
    /\ pc = "stringify"
    /\ o = None
    /\ lowered = <<>>
    /\ children = <<>>
    /\ ret = None
    /\ indices = None
    /\ variable = None
    /\ base = None
    /\ heap = <<>>
    /\ stmts = <<>>
    /\ expr \in StrfInputs
    /\ AuxIdle

\* lines 35-36
StringifyString ==
    /\ pc = "stringify"
    /\ expr.k = "StringLiteral"
    /\ ret' = Str(map_string_literal(expr))
    /\ pc' = "done"
    /\ UNCHANGED <<o, lowered, children, indices, variable, base, heap, stmts, expr, aux>>

\* lines 70-74
StringifyRangeStep ==
    /\ pc = "stringify"
    /\ expr.k = "RangeIndex"
    /\ ~IsNone(expr.step)
    /\ ret' = Str(strf_map_range_index(expr))
    /\ pc' = "done"
    /\ UNCHANGED <<o, lowered, children, indices, variable, base, heap, stmts, expr, aux>>

\* lines 70-72, 75-76
StringifyRange ==
    /\ pc = "stringify"
    /\ expr.k = "RangeIndex"
    /\ IsNone(expr.step)
    /\ ret' = Str(strf_map_range_index(expr))
    /\ pc' = "done"
    /\ UNCHANGED <<o, lowered, children, indices, variable, base, heap, stmts, expr, aux>>

NextStringify == StringifyString \/ StringifyRangeStep \/ StringifyRange

SpecStringify == InitStringify /\ [][NextStringify]_vars

---------------------------------------------------------------------------
(* is_subset, lines 64-120 of loki/tools/util.py *)

\* the longest list given to is_subset, binary_insertion_sort
MaxItems == 4

\* the items of the lists
Items == {1, 2}

Bool(v) == [k |-> "bool", v |-> v]

\* set(seq)
SetOf(seq) == { seq[i] : i \in 1..Len(seq) }

\* seq.index(x, start), counted from 1; 0 stands for the ValueError
ListIndex(seq, x, start) ==
    IF \E i \in start..Len(seq) : seq[i] = x
    THEN CHOOSE i \in start..Len(seq) :
             seq[i] = x /\ \A j \in start..(i - 1) : seq[j] # x
    ELSE 0

\* lines 106-111: zip(a, b[idx:]) stops at the shorter of the two
ZipEqual(a, b, idx) ==
    LET n == IF Len(a) < Len(b) - idx + 1 THEN Len(a) ELSE Len(b) - idx + 1
    IN  \A i \in 1..n : a[i] = b[idx + i - 1]

\* lines 115-120: every further item of a is looked for behind the last find
RECURSIVE FindRest(_, _, _, _)
FindRest(a, b, idx, i) ==
    IF i > Len(a)
    THEN TRUE
    ELSE LET nxt == ListIndex(b, a[i], idx + 1)
         IN  IF nxt = 0 THEN FALSE ELSE FindRest(a, b, nxt, i + 1)

\* lines 87-120, for two lists
is_subset(a, b, ordered, subsequent) ==
    IF ~ordered
    THEN SetOf(a) \subseteq SetOf(b)
    ELSE IF a = <<>>
    THEN FALSE
    ELSE LET idx == ListIndex(b, a[1], 1)
         IN  IF idx = 0
             THEN FALSE
             ELSE IF Len(a) > Len(b) - (idx - 1)
             THEN FALSE
             ELSE IF subsequent
             THEN ZipEqual(a, b, idx)
             ELSE FindRest(a, b, idx, 2)

SubsetInputs ==
    [a : SeqUpTo(Items, MaxItems), b : SeqUpTo(Items, MaxItems),
     ordered : BOOLEAN, subsequent : BOOLEAN]

InitSubset ==
    /\ pc = "is_subset"
    /\ o \in SubsetInputs
    /\ lowered = <<>>
    /\ children = <<>>
    /\ ret = None
    /\ Idle

\* lines 87-88
SubsetUnordered ==
    /\ pc = "is_subset"
    /\ ~o.ordered
    /\ ret' = Bool(is_subset(o.a, o.b, o.ordered, o.subsequent))
    /\ pc' = "done"
    /\ UNCHANGED <<o, lowered, children, indices, variable, base, heap, stmts, expr, aux>>

\* lines 94-95
SubsetEmpty ==
    /\ pc = "is_subset"
    /\ o.ordered
    /\ o.a = <<>>
    /\ ret' = Bool(is_subset(o.a, o.b, o.ordered, o.subsequent))
    /\ pc' = "done"
    /\ UNCHANGED <<o, lowered, children, indices, variable, base, heap, stmts, expr, aux>>

\* lines 99-104
SubsetNoStart ==
    /\ pc = "is_subset"
    /\ o.ordered
    /\ o.a # <<>>
    /\ LET idx == ListIndex(o.b, o.a[1], 1)
       IN  idx = 0 \/ Len(o.a) > Len(o.b) - (idx - 1)
    /\ ret' = Bool(is_subset(o.a, o.b, o.ordered, o.subsequent))
    /\ pc' = "done"
    /\ UNCHANGED <<o, lowered, children, indices, variable, base, heap, stmts, expr, aux>>

\* lines 106-111
SubsetSubsequent ==
    /\ pc = "is_subset"
    /\ o.ordered
    /\ o.a # <<>>
    /\ LET idx == ListIndex(o.b, o.a[1], 1)
       IN  idx # 0 /\ Len(o.a) <= Len(o.b) - (idx - 1)
    /\ o.subsequent
    /\ ret' = Bool(is_subset(o.a, o.b, o.ordered, o.subsequent))
    /\ pc' = "done"
    /\ UNCHANGED <<o, lowered, children, indices, variable, base, heap, stmts, expr, aux>>

\* lines 115-120
SubsetOrdered ==
    /\ pc = "is_subset"
    /\ o.ordered
    /\ o.a # <<>>
    /\ LET idx == ListIndex(o.b, o.a[1], 1)
       IN  idx # 0 /\ Len(o.a) <= Len(o.b) - (idx - 1)
    /\ ~o.subsequent
    /\ ret' = Bool(is_subset(o.a, o.b, o.ordered, o.subsequent))
    /\ pc' = "done"
    /\ UNCHANGED <<o, lowered, children, indices, variable, base, heap, stmts, expr, aux>>

NextSubset ==
    \/ SubsetUnordered
    \/ SubsetEmpty
    \/ SubsetNoStart
    \/ SubsetSubsequent
    \/ SubsetOrdered

SpecSubset == InitSubset /\ [][NextSubset]_vars

---------------------------------------------------------------------------
(* binary_search and binary_insertion_sort, lines 306-369 of               *)
(* loki/tools/util.py. Positions are counted from 0, as in the code:       *)
(* items[p] of the code is At(items, p).                                   *)

\* the values that are sorted
Keys == {1, 2, 3}

\* the strict total orders of Keys: lt(x, y) is rk[x] < rk[y] for a ranking rk
Orders == { rk \in [Keys -> 1..Cardinality(Keys)] :
                \A x, y \in Keys : x # y => rk[x] # rk[y] }

Lt(rk, x, y) == rk[x] < rk[y]

At(items, p) == items[p + 1]

\* a bound of a slice of a list of n items: a negative one counts from the
\* end, and both are cut to 0..n
SliceBound(i, n) ==
    IF i < 0
    THEN IF i + n < 0 THEN 0 ELSE i + n
    ELSE IF i > n THEN n ELSE i

\* items[a:b]
Slice(items, a, b) ==
    LET lo == SliceBound(a, Len(items))
        hi == SliceBound(b, Len(items))
    IN  IF lo >= hi THEN <<>> ELSE SubSeq(items, lo + 1, hi)

MutSearchOne(items, val, start, rk) == start

\* lines 329-332: the search in a range of one item
SearchOne(items, val, start, rk) ==
    IF Lt(rk, val, At(items, start)) THEN start ELSE start + 1

\* line 336
Middle(start, end) == (start + end) \div 2

\* line 367
Inserted(items, val, pos, i) ==
    Slice(items, 0, pos) \o <<val>> \o Slice(items, pos, i)
        \o Slice(items, i + 1, Len(items))

SortFrame(items, i, val, start, end, pos) ==
    [k |-> "frame", items |-> items, i |-> i, val |-> val,
     start |-> start, end |-> end, pos |-> pos]

SortInputs == [items : SeqUpTo(Keys, MaxItems), lt : Orders]

InitSort ==
    /\ pc = "binary_insertion_sort"
    /\ o \in SortInputs
    /\ lowered = <<>>
    /\ children = <<>>
    /\ ret = None
    /\ Idle

\* line 364: range(1, len(items))
SortStart ==
    /\ pc = "binary_insertion_sort"
    /\ frame' = SortFrame(o.items, 1, 0, 0, 0, 0)
    /\ pc' = "for"
    /\ UNCHANGED <<o, lowered, children, ret, indices, variable, base, heap, stmts, expr,
                   dims, exprs, visits, ops, variables, type, query>>

\* lines 364-366: the next i, its value and the call of binary_search
SortNext ==
    /\ pc = "for"
    /\ frame.i < Len(frame.items)
    /\ frame' = [frame EXCEPT !.val = At(frame.items, frame.i),
                              !.start = 0, !.end = frame.i - 1]
    /\ pc' = "binary_search"
    /\ UNCHANGED <<o, lowered, children, ret, indices, variable, base, heap, stmts, expr,
                   dims, exprs, visits, ops, variables, type, query>>

\* lines 329-332
SearchOneItem ==
    /\ pc = "binary_search"
    /\ frame.start = frame.end
    /\ frame' = [frame EXCEPT !.pos = SearchOne(frame.items, frame.val, frame.start, o.lt)]
    /\ pc' = "insert"
    /\ UNCHANGED <<o, lowered, children, ret, indices, variable, base, heap, stmts, expr,
                   dims, exprs, visits, ops, variables, type, query>>

\* lines 333-334
SearchNoItem ==
    /\ pc = "binary_search"
    /\ frame.start > frame.end
    /\ frame' = [frame EXCEPT !.pos = frame.start]
    /\ pc' = "insert"
    /\ UNCHANGED <<o, lowered, children, ret, indices, variable, base, heap, stmts, expr,
                   dims, exprs, visits, ops, variables, type, query>>

\* lines 336-338
SearchRight ==
    /\ pc = "binary_search"
    /\ frame.start < frame.end
    /\ Lt(o.lt, At(frame.items, Middle(frame.start, frame.end)), frame.val)
    /\ frame' = [frame EXCEPT !.start = Middle(frame.start, frame.end) + 1]
    /\ UNCHANGED <<pc, o, lowered, children, ret, indices, variable, base, heap, stmts,
                   expr, dims, exprs, visits, ops, variables, type, query>>

\* lines 336, 339-340
SearchLeft ==
    /\ pc = "binary_search"
    /\ frame.start < frame.end
    /\ ~Lt(o.lt, At(frame.items, Middle(frame.start, frame.end)), frame.val)
    /\ Lt(o.lt, frame.val, At(frame.items, Middle(frame.start, frame.end)))
    /\ frame' = [frame EXCEPT !.end = Middle(frame.start, frame.end) - 1]
    /\ UNCHANGED <<pc, o, lowered, children, ret, indices, variable, base, heap, stmts,
                   expr, dims, exprs, visits, ops, variables, type, query>>

\* lines 336, 341
SearchFound ==
    /\ pc = "binary_search"
    /\ frame.start < frame.end
    /\ ~Lt(o.lt, At(frame.items, Middle(frame.start, frame.end)), frame.val)
    /\ ~Lt(o.lt, frame.val, At(frame.items, Middle(frame.start, frame.end)))
    /\ frame' = [frame EXCEPT !.pos = Middle(frame.start, frame.end)]
    /\ pc' = "insert"
    /\ UNCHANGED <<o, lowered, children, ret, indices, variable, base, heap, stmts, expr,
                   dims, exprs, visits, ops, variables, type, query>>

\* line 367
SortInsert ==
    /\ pc = "insert"
    /\ frame' = [frame EXCEPT !.items = Inserted(frame.items, frame.val, frame.pos, frame.i),
                              !.i = frame.i + 1]
    /\ pc' = "for"
    /\ UNCHANGED <<o, lowered, children, ret, indices, variable, base, heap, stmts, expr,
                   dims, exprs, visits, ops, variables, type, query>>

\* line 369
SortReturn ==
    /\ pc = "for"
    /\ frame.i >= Len(frame.items)
    /\ ret' = List(frame.items)
    /\ pc' = "done"
    /\ UNCHANGED <<o, lowered, children, indices, variable, base, heap, stmts, expr, aux>>

NextSort ==
    \/ SortStart
    \/ SortNext
    \/ SearchOneItem
    \/ SearchNoItem
    \/ SearchRight
    \/ SearchLeft
    \/ SearchFound
    \/ SortInsert
    \/ SortReturn

SpecSort == InitSort /\ [][NextSort]_vars

---------------------------------------------------------------------------
(* strip_inline_comments, lines 245-303 of loki/tools/util.py, with its    *)
(* default comment_char and str_delim. A string is a sequence of           *)
(* characters; positions are counted from 0, and -1 is "not found".        *)

\* the longest source
MaxSource == 5

comment_char == "!"

str_delim == {"\"", "'"}

Whitespace == {" "}

SourceChars == {"x", " ", "\n"} \cup {comment_char} \cup str_delim

\* string.find(ch, from)
Find(string, ch, from) ==
    IF \E p \in from..(Len(string) - 1) : string[p + 1] = ch
    THEN CHOOSE p \in from..(Len(string) - 1) :
             string[p + 1] = ch /\ \A q \in from..(p - 1) : string[q + 1] # ch
    ELSE 0 - 1

\* source.splitlines(), for the line break "\n"
RECURSIVE splitlines(_)
splitlines(source) ==
    IF source = <<>>
    THEN <<>>
    ELSE LET p == Find(source, "\n", 0)
         IN  IF p = 0 - 1
             THEN <<source>>
             ELSE <<Slice(source, 0, p)>> \o splitlines(Slice(source, p + 1, Len(source)))

\* '\n'.join(lines)
RECURSIVE join(_)
join(lines) ==
    IF lines = <<>>
    THEN <<>>
    ELSE IF Len(lines) = 1
    THEN lines[1]
    ELSE lines[1] \o <<"\n">> \o join(Tail(lines))

\* string.rstrip()
RECURSIVE rstrip(_)
rstrip(string) ==
    IF string # <<>> /\ string[Len(string)] \in Whitespace
    THEN rstrip(SubSeq(string, 1, Len(string) - 1))
    ELSE string

MutUpdateChar(open_str_delim, ch) ==
    IF ch \in str_delim
    THEN IF open_str_delim = "" THEN ch ELSE ""
    ELSE open_str_delim

\* lines 270-275: one character of update_str_delim
UpdateChar(open_str_delim, ch) ==
    IF ch \in str_delim
    THEN IF open_str_delim = ""
         THEN ch
         ELSE IF open_str_delim = ch THEN "" ELSE open_str_delim
    ELSE open_str_delim

\* lines 263-276
RECURSIVE update_str_delim(_, _)
update_str_delim(open_str_delim, string) ==
    IF string = <<>>
    THEN open_str_delim
    ELSE update_str_delim(UpdateChar(open_str_delim, Head(string)), Tail(string))

\* lines 289-301: the while loop over the comment characters of a line, from
\* the one at end; cut says whether the loop left by break
RECURSIVE WhileComment(_, _, _)
WhileComment(line, open_str_delim, end) ==
    IF end = 0 - 1
    THEN [cut |-> FALSE, line |-> line,
          open_str_delim |-> update_str_delim(open_str_delim, Slice(line, end, Len(line)))]
    ELSE IF open_str_delim = ""
    THEN [cut |-> TRUE, line |-> rstrip(Slice(line, 0, end)),
          open_str_delim |-> open_str_delim]
    ELSE LET nxt == Find(line, comment_char, end + 1)
         IN  WhileComment(line,
                          update_str_delim(open_str_delim, Slice(line, end, nxt)),
                          nxt)

\* lines 287-301: the body of the loop over the lines
CleanLine(line, open_str_delim) ==
    LET end == Find(line, comment_char, 0)
    IN  WhileComment(line, update_str_delim(open_str_delim, Slice(line, 0, end)), end)

StripFrame(source_lines, open_str_delim, clean_lines) ==
    [k |-> "frame", source_lines |-> source_lines,
     open_str_delim |-> open_str_delim, clean_lines |-> clean_lines]

StripInputs == { Str(s) : s \in SeqUpTo(SourceChars, MaxSource) }

InitStrip ==
    /\ pc = "strip_inline_comments"
    /\ o \in StripInputs
    /\ lowered = <<>>
    /\ children = <<>>
    /\ ret = None
    /\ Idle

\* lines 256-258
StripNothing ==
    /\ pc = "strip_inline_comments"
    /\ Find(o.s, comment_char, 0) = 0 - 1
    /\ ret' = o
    /\ pc' = "done"
    /\ UNCHANGED <<o, lowered, children, indices, variable, base, heap, stmts, expr, aux>>

\* lines 260, 281, 284
StripStart ==
    /\ pc = "strip_inline_comments"
    /\ Find(o.s, comment_char, 0) # 0 - 1
    /\ frame' = StripFrame(splitlines(o.s), "", <<>>)
    /\ pc' = "for"
    /\ UNCHANGED <<o, lowered, children, ret, indices, variable, base, heap, stmts, expr,
                   dims, exprs, visits, ops, variables, type, query>>

\* lines 286-296: a line that is cut at a comment character
StripCut ==
    /\ pc = "for"
    /\ frame.source_lines # <<>>
    /\ LET done == CleanLine(Head(frame.source_lines), frame.open_str_delim)
       IN  /\ done.cut
           /\ frame' = StripFrame(Tail(frame.source_lines), done.open_str_delim,
                                  Append(frame.clean_lines, done.line))
    /\ UNCHANGED <<pc, o, lowered, children, ret, indices, variable, base, heap, stmts,
                   expr, dims, exprs, visits, ops, variables, type, query>>

\* lines 286-301: a line that is kept, by the else of the while loop
StripKeep ==
    /\ pc = "for"
    /\ frame.source_lines # <<>>
    /\ LET done == CleanLine(Head(frame.source_lines), frame.open_str_delim)
       IN  /\ ~done.cut
           /\ frame' = StripFrame(Tail(frame.source_lines), done.open_str_delim,
                                  Append(frame.clean_lines, done.line))
    /\ UNCHANGED <<pc, o, lowered, children, ret, indices, variable, base, heap, stmts,
                   expr, dims, exprs, visits, ops, variables, type, query>>

\* line 303
StripReturn ==
    /\ pc = "for"
    /\ frame.source_lines = <<>>
    /\ ret' = Str(join(frame.clean_lines))
    /\ pc' = "done"
    /\ UNCHANGED <<o, lowered, children, indices, variable, base, heap, stmts, expr, aux>>

NextStrip ==
    \/ StripNothing
    \/ StripStart
    \/ StripCut
    \/ StripKeep
    \/ StripReturn

SpecStrip == InitStrip /\ [][NextStrip]_vars

---------------------------------------------------------------------------
(* OFP2IR.visit_loop, lines 75-94 of loki/frontend/ofp2ir.py *)

\* o.find('a/b/...') is not None
RECURSIVE HasPath(_, _)
HasPath(n, path) ==
    IF path = <<>>
    THEN TRUE
    ELSE \E i \in 1..Len(n.kids) :
             n.kids[i].tag = Head(path) /\ HasPath(n.kids[i], Tail(path))

\* o.find('a/b/...'): the first element, in document order, at that path
RECURSIVE FindPath(_, _)
FindPath(n, path) ==
    IF path = <<>>
    THEN n
    ELSE LET i == CHOOSE i \in 1..Len(n.kids) :
                      /\ n.kids[i].tag = Head(path) /\ HasPath(n.kids[i], Tail(path))
                      /\ \A j \in 1..(i - 1) :
                             ~(n.kids[j].tag = Head(path) /\ HasPath(n.kids[j], Tail(path)))
         IN  FindPath(n.kids[i], Tail(path))

WhileLoop(condition, body) ==
    [k |-> "WhileLoop", condition |-> condition, body |-> body]

Loop(var, body, bounds) ==
    [k |-> "Loop", variable |-> var, body |-> body, bounds |-> bounds]

LoopFrame(condition, var, lower, upper, step) ==
    [k |-> "frame", condition |-> condition, variable |-> var,
     lower |-> lower, upper |-> upper, step |-> step]

\* the expressions under a header, a bound or a step
LoopExprs == { Elem("literal", "1", <<>>), Elem("literal", "2", <<>>),
               Elem("part-ref", "a", <<>>) }

\* an index variable with its bounds and with or without a step
IndexVariables ==
    { Elem("index-variable", "i",
           <<Elem("lower-bound", "", <<l>>), Elem("upper-bound", "", <<u>>)>> \o s) :
        l \in LoopExprs, u \in LoopExprs,
        s \in {<<>>} \cup { <<Elem("step", "", <<e>>)>> : e \in LoopExprs } }

\* the header of do, of do while (...) and of a counted do
LoopHeaders ==
    {Elem("header", "", <<>>)}
        \cup { Elem("header", "", <<e>>) : e \in LoopExprs }
        \cup { Elem("header", "", <<v>>) : v \in IndexVariables }

LoopBodies ==
    { Elem("body", "", kids) :
        kids \in { <<>>, <<Elem("literal", "1", <<>>)>>,
                   <<Elem("literal", "1", <<>>), Elem("part-ref", "a", <<>>)>> } }

LoopInputs == { Elem("loop", "", <<h, b>>) : h \in LoopHeaders, b \in LoopBodies }

InitLoop ==
    /\ pc = "visit_loop"
    /\ o \in LoopInputs
    /\ lowered = <<>>
    /\ children = <<>>
    /\ ret = None
    /\ Idle

\* lines 76-78
LoopCondition ==
    /\ pc = "visit_loop"
    /\ ~HasPath(o, <<"header", "index-variable">>)
    /\ frame' = LoopFrame(visit(FindPath(o, <<"header">>)), None, None, None, None)
    /\ pc' = "while"
    /\ UNCHANGED <<o, lowered, children, ret, indices, variable, base, heap, stmts, expr,
                   dims, exprs, visits, ops, variables, type, query>>

\* lines 79-80
LoopWhileReturn ==
    /\ pc = "while"
    /\ ret' = WhileLoop(frame.condition, as_tuple(visit(FindPath(o, <<"body">>))))
    /\ pc' = "done"
    /\ UNCHANGED <<o, lowered, children, indices, variable, base, heap, stmts, expr, aux>>

\* lines 76, 83-86
LoopBounds ==
    /\ pc = "visit_loop"
    /\ HasPath(o, <<"header", "index-variable">>)
    /\ frame' = LoopFrame(None,
                          Str(FindPath(o, <<"header", "index-variable">>).att),
                          visit(FindPath(o, <<"header", "index-variable", "lower-bound">>)),
                          visit(FindPath(o, <<"header", "index-variable", "upper-bound">>)),
                          None)
    /\ pc' = "step"
    /\ UNCHANGED <<o, lowered, children, ret, indices, variable, base, heap, stmts, expr,
                   dims, exprs, visits, ops, variables, type, query>>

MutLoopStep ==
    /\ pc = "step"
    /\ HasPath(o, <<"header", "index-variable", "step">>)
    /\ pc' = "bounds"
    /\ UNCHANGED <<o, lowered, children, ret, indices, variable, base, heap, stmts, expr, aux>>

\* lines 87-88
LoopStep ==
    /\ pc = "step"
    /\ HasPath(o, <<"header", "index-variable", "step">>)
    /\ frame' = [frame EXCEPT !.step = visit(FindPath(o, <<"header", "index-variable", "step">>))]
    /\ pc' = "bounds"
    /\ UNCHANGED <<o, lowered, children, ret, indices, variable, base, heap, stmts, expr,
                   dims, exprs, visits, ops, variables, type, query>>

\* line 87, no step
LoopNoStep ==
    /\ pc = "step"
    /\ ~HasPath(o, <<"header", "index-variable", "step">>)
    /\ pc' = "bounds"
    /\ UNCHANGED <<o, lowered, children, ret, indices, variable, base, heap, stmts, expr, aux>>

\* lines 89-94
LoopReturn ==
    /\ pc = "bounds"
    /\ ret' = Loop(frame.variable,
                   as_tuple(visit(FindPath(o, <<"body">>))),
                   RangeIndex(frame.lower, frame.upper, frame.step))
    /\ pc' = "done"
    /\ UNCHANGED <<o, lowered, children, indices, variable, base, heap, stmts, expr, aux>>

NextLoop ==
    \/ LoopCondition
    \/ LoopWhileReturn
    \/ LoopBounds
    \/ LoopStep
    \/ LoopNoStep
    \/ LoopReturn

SpecLoop == InitLoop /\ [][NextLoop]_vars

---------------------------------------------------------------------------
(* OFP2IR.visit_if, lines 96-103 of loki/frontend/ofp2ir.py *)

\* the most branches with a condition
MaxBranches == 2

Conditional(conditions, bodies, else_body, inline) ==
    [k |-> "Conditional", conditions |-> conditions, bodies |-> bodies,
     else_body |-> else_body, inline |-> inline]

\* line 98: [self.visit(b)] for each body
VisitBodies(elems) == [i \in 1..Len(elems) |-> List(<<visit(elems[i])>>)]

MutElseBody(bodies, ncond) ==
    IF Len(bodies) > 0 THEN bodies[Len(bodies)] ELSE None

\* line 100
ElseBody(bodies, ncond) ==
    IF Len(bodies) > ncond THEN bodies[Len(bodies)] ELSE None

\* bodies[:ncond], line 101
FirstBodies(bodies, ncond) == Slice(bodies, 0, ncond)

IfFrame(conditions, bodies) ==
    [k |-> "frame", conditions |-> conditions, bodies |-> bodies]

IfHeaders == { Elem("header", "", <<e>>) : e \in LoopExprs }

\* if / else if branches: a header and its body, one after the other
RECURSIVE Branches(_)
Branches(n) ==
    IF n = 0
    THEN {<<>>}
    ELSE { <<h, b>> \o rest : h \in IfHeaders, b \in LoopBodies, rest \in Branches(n - 1) }

\* a conditional node: the if-then statement of a block if, the branches,
\* and the body of else
IfInputs ==
    { Elem("if", "", stmt \o br \o els) :
        stmt \in {<<>>, <<Elem("if-then-stmt", "", <<>>)>>},
        br \in UNION { Branches(n) : n \in 1..MaxBranches },
        els \in {<<>>} \cup { <<b>> : b \in LoopBodies } }

InitIf ==
    /\ pc = "visit_if"
    /\ o \in IfInputs
    /\ lowered = <<>>
    /\ children = <<>>
    /\ ret = None
    /\ Idle

\* line 97
IfConditions ==
    /\ pc = "visit_if"
    /\ frame' = IfFrame(VisitAll(findall(o, "header")), <<>>)
    /\ pc' = "bodies"
    /\ UNCHANGED <<o, lowered, children, ret, indices, variable, base, heap, stmts, expr,
                   dims, exprs, visits, ops, variables, type, query>>

\* line 98
IfBodies ==
    /\ pc = "bodies"
    /\ frame' = [frame EXCEPT !.bodies = VisitBodies(findall(o, "body"))]
    /\ pc' = "return"
    /\ UNCHANGED <<o, lowered, children, ret, indices, variable, base, heap, stmts, expr,
                   dims, exprs, visits, ops, variables, type, query>>

\* lines 99-103
IfReturn ==
    /\ pc = "return"
    /\ LET ncond == Len(frame.conditions)
       IN  ret' = Conditional(Tuple(frame.conditions),
                              Tuple(FirstBodies(frame.bodies, ncond)),
                              ElseBody(frame.bodies, ncond),
                              ~HasChild(o, "if-then-stmt"))
    /\ pc' = "done"
    /\ UNCHANGED <<o, lowered, children, indices, variable, base, heap, stmts, expr, aux>>

NextIf == IfConditions \/ IfBodies \/ IfReturn

SpecIf == InitIf /\ [][NextIf]_vars

---------------------------------------------------------------------------
(* Properties of the default handler *)

\* the positions of seq that hold no None
Meaningful(seq) == { i \in 1..Len(seq) : seq[i].k # "None" }

\* the j-th of them, from the left
NthMeaningful(seq, j) ==
    CHOOSE i \in Meaningful(seq) :
        Cardinality({ m \in Meaningful(seq) : m < i }) = j - 1

\* what is left of seq without its None entries, in the order of seq
Surviving(seq) ==
    [j \in 1..Cardinality(Meaningful(seq)) |-> seq[NthMeaningful(seq, j)]]

\* each child has been lowered, in child order
LoweredInOrder ==
    /\ Len(lowered) = Len(o.kids)
    /\ \A i \in 1..Len(o.kids) : lowered[i] = visit(o.kids[i])

\* the tag of o has no handler and more than one child lowers to a result
UnknownWithMany ==
    /\ pc = "done"
    /\ TagKey(o.tag) \notin Handlers
    /\ Cardinality({ i \in 1..Len(o.kids) : visit(o.kids[i]).k # "None" }) > 1

C2_DefaultHandler ==
    (pc = "done" /\ lookup_method(o) \in {"Element", "body"}) =>
        LET kept == Surviving(lowered)
        IN /\ LoweredInOrder
           /\ Len(kept) = 1 => ret = kept[1]
           /\ Len(kept) = 0 => ret = None
           /\ Len(kept) >= 2 => ret = Tuple(kept)

C2_Witness ==
    /\ pc = "done"
    /\ lookup_method(o) = "Element"
    /\ Len(lowered) = 3
    /\ Cardinality(Meaningful(lowered)) = 1
    /\ lowered[2] = Str("a")
    /\ ret = Str("a")

---------------------------------------------------------------------------
(* Properties of visit_name *)

\* the positions of the leaf tokens among the lowered children
LeafPositions == { i \in 1..Len(lowered) : lowered[i].k = "str" }

NumLeaves == Cardinality(LeafPositions)

\* the position of the i-th leaf, from the left
LeafPos(i) ==
    CHOOSE p \in LeafPositions :
        Cardinality({ q \in LeafPositions : q < p }) = i - 1

\* the i-th leaf l_i
Leaf(i) == lowered[LeafPos(i)]

\* The loop takes the leaves from the right: the object made for l_i is the
\* (n - i + 1)-th object created.
NodeOf(i) == NumLeaves - i + 1

\* an object carries the name of its leaf, or the id of the name node when
\* it is the call with an empty argument tuple
NamedAfter(obj, leaf) ==
    \/ obj.name = leaf
    \/ obj.k = "InlineCall" /\ obj.name = Str(o.att)

\* C3: lowering l1%l2%...%ln (n >= 1) yields a chain in which ln.parent is
\* l(n-1), ..., l2.parent is l1 and l1.parent is None; the result is the
\* node of ln. The code calls the parent link ref.
C3_ParentChain ==
    (pc = "done" /\ NumLeaves >= 1) =>
        /\ Len(heap) = NumLeaves
        /\ ret = Obj(NodeOf(NumLeaves))
        /\ \A i \in 1..NumLeaves : NamedAfter(heap[NodeOf(i)], Leaf(i))
        /\ \A i \in 2..NumLeaves : heap[NodeOf(i)].ref = Obj(NodeOf(i - 1))
        /\ heap[NodeOf(1)].ref = None

\* a%b%c: c.parent is b, b.parent is a, a.parent is None
C3_Witness ==
    /\ pc = "done"
    /\ lowered = <<Str(<<"a">>), Str(<<"b">>), Str(<<"c">>)>>
    /\ ret = Obj(1)
    /\ heap[1].name = Str(<<"c">>) /\ heap[1].ref = Obj(2)
    /\ heap[2].name = Str(<<"b">>) /\ heap[2].ref = Obj(3)
    /\ heap[3].name = Str(<<"a">>) /\ heap[3].ref = None

\* the objects met by following ref from r, at most fuel of them
RECURSIVE Walk(_, _)

Walk(r, fuel) ==
    IF r.k = "None" \/ fuel = 0
    THEN <<>>
    ELSE <<r.id>> \o Walk(heap[r.id].ref, fuel - 1)

\* following ref from the base reaches every object created once and ends
ChainEnds ==
    LET w == Walk(base, Len(heap) + 1)
    IN /\ Len(w) = Len(heap)
       /\ { w[i] : i \in 1..Len(w) } = 1..Len(heap)

C4_State ==
    /\ pc \in {"loop", "done"} => ChainEnds
    /\ pc = "done" => Len(heap) = NumLeaves
    /\ pc # "done" => ENABLED NextName

C4_Step ==
    (pc = "loop" /\ pc' = "loop") =>
        /\ Len(children') < Len(children)
        /\ Len(heap') = Len(heap) + 1

\* C4: the reconstruction loop of visit_name terminates (every iteration
\* shortens the deque and the loop ends when it is empty), creates exactly
\* one object per leaf token, and the links it sets never form a cycle:
\* following them from the base reaches every object once and then ends.
C4_TerminatesAcyclic == []C4_State /\ [][C4_Step]_vars

C4_Witness ==
    /\ pc = "done"
    /\ NumLeaves = 3
    /\ Len(lowered) = 6
    /\ Walk(ret, 4) = <<1, 2, 3>>

IntrinsicNames == { "MIN", "MAX", "EXP", "SQRT", "ABS", "LOG" }

\* the characters of MIN, MAX, EXP, SQRT, ABS, LOG
Spelling(w) ==
    CASE w = "MIN" -> <<"M", "I", "N">>
      [] w = "MAX" -> <<"M", "A", "X">>
      [] w = "EXP" -> <<"E", "X", "P">>
      [] w = "SQRT" -> <<"S", "Q", "R", "T">>
      [] w = "ABS" -> <<"A", "B", "S">>
      [] w = "LOG" -> <<"L", "O", "G">>

\* the two characters are one letter, in either case
SameLetter(c, d) ==
    \/ c = d
    \/ <<c, d>> \in { <<"q", "Q">>, <<"Q", "q">>, <<"r", "R">>, <<"R", "r">>,
                      <<"t", "T">>, <<"T", "t">>, <<"a", "A">>, <<"A", "a">>,
                      <<"b", "B">>, <<"B", "b">>, <<"c", "C">>, <<"C", "c">> }

\* the name is one of the six, compared without regard to case
IsIntrinsic(s) ==
    \E w \in IntrinsicNames :
        /\ Len(Spelling(w)) = Len(s)
        /\ \A i \in 1..Len(s) : SameLetter(s[i], Spelling(w)[i])

\* the index tuple of the i-th leaf: the tuple right before it, if any
PendingOf(i) ==
    IF LeafPos(i) > 1 /\ lowered[LeafPos(i) - 1].k = "tuple"
    THEN lowered[LeafPos(i) - 1]
    ELSE None

\* C8: a leaf whose name is, without regard to case, one of MIN, MAX, EXP,
\* SQRT, ABS, LOG is lowered to an InlineCall with the leaf's name and its
\* pending indices as arguments, whatever the indices are.
C8_IntrinsicIsCall ==
    pc = "done" =>
        \A i \in 1..NumLeaves :
            IsIntrinsic(Leaf(i).s) =>
                /\ heap[NodeOf(i)].k = "InlineCall"
                /\ heap[NodeOf(i)].name = Leaf(i)
                /\ heap[NodeOf(i)].arguments = PendingOf(i)

\* Sqrt(1) lowers to InlineCall(name = "Sqrt", arguments = (1,))
C8_Witness ==
    /\ pc = "done"
    /\ lowered = <<Tuple(<<IndexExpr>>), Str(<<"S", "q", "r", "t">>)>>
    /\ ret = Obj(1)
    /\ heap[1] = [k |-> "InlineCall", name |-> Str(<<"S", "q", "r", "t">>),
                  arguments |-> Tuple(<<IndexExpr>>), ref |-> None]


\* the index tuple an object was made with
IndicesOf(obj) == IF obj.k = "Variable" THEN obj.dimensions ELSE obj.arguments

\* the children that the loop has taken from the deque so far
Taken(n) == SubSeq(DropNone(lowered), Len(DropNone(lowered)) - n + 1, Len(DropNone(lowered)))

C24_State ==
    /\ pc \in {"loop", "done"} =>
           /\ indices = None
           /\ \E n \in 0..Len(DropNone(lowered)) :
                  DropNone(lowered) = children \o Taken(n)
           /\ \A j \in 1..Len(heap) :
                  IndicesOf(heap[j]) = PendingOf(NumLeaves - j + 1)
    /\ pc = "done" =>
           /\ children = <<>>
           /\ Len(heap) = NumLeaves
           /\ Cardinality({ j \in 1..Len(heap) : ~IsNone(IndicesOf(heap[j])) })
                  = Cardinality({ p \in 1..Len(lowered) : lowered[p].k = "tuple" })

\* an iteration takes the last child, a leaf, and the tuple right before it
\* if there is one, and nothing else
C24_Step ==
    (pc = "loop" /\ pc' = "loop") =>
        LET new == heap'[Len(heap')]
        IN  \/ /\ children = children' \o <<Last(children)>>
               /\ Last(children).k = "str"
               /\ IsNone(IndicesOf(new))
            \/ /\ children = children' \o <<IndicesOf(new), Last(children)>>
               /\ Last(children).k = "str"
               /\ IndicesOf(new).k = "tuple"

\* C24: in visit_name an index tuple is attached only to the leaf popped in
\* the same iteration, the leaf that follows it in child order: the indices
\* of each leaf's object are that tuple, or None when no tuple stands before
\* the leaf; the pending indices are None again after every leaf; and every
\* child is taken from the deque once, by the iteration of its leaf.
C24_IndicesStayLocal == []C24_State /\ [][C24_Step]_vars

\* a(1)%b: the tuple went to a, and b, taken first, has no indices
C24_Witness ==
    /\ pc = "done"
    /\ lowered = <<Tuple(<<IndexExpr>>), Str(<<"a">>), Str(<<"b">>)>>
    /\ heap[1].name = Str(<<"b">>) /\ IsNone(heap[1].dimensions)
    /\ heap[2].name = Str(<<"a">>) /\ heap[2].dimensions = Tuple(<<IndexExpr>>)

---------------------------------------------------------------------------
(* Properties of the WHERE partitioning *)

\* the lowered children that are not None
WhereKept == Surviving(lowered)

EndPositions ==
    { i \in 1..Len(WhereKept) : IsStr(WhereKept[i], "ENDWHERE_CONSTRUCT") }

\* k, the number of ENDWHERE markers
NumEnds == Cardinality(EndPositions)

\* the position of the i-th ENDWHERE marker; 0 for i = 0
EndPos(i) ==
    IF i = 0
    THEN 0
    ELSE CHOOSE p \in EndPositions :
             Cardinality({ q \in EndPositions : q < p }) = i - 1

\* the elements between the (i-1)-th and the i-th ENDWHERE marker
Segment(i) == SubSeq(WhereKept, EndPos(i - 1) + 1, EndPos(i) - 1)

\* the position in seg of its first ELSEWHERE marker
FirstElsewhere(seg) ==
    CHOOSE p \in 1..Len(seg) :
        /\ IsStr(seg[p], "ELSEWHERE_CONSTRUCT")
        /\ \A q \in 1..(p - 1) : ~IsStr(seg[q], "ELSEWHERE_CONSTRUCT")

\* C5: a WHERE statement with one ENDWHERE marker lowers to exactly one
\* MaskedStatement whose condition is the first lowered child (the first
\* that is not None); with an ELSEWHERE marker before the ENDWHERE marker
\* its default is not empty, without one its default is the empty tuple.
C5_OneMaskedStatement ==
    (pc = "done" /\ NumEnds = 1) =>
        /\ ret.k = "tuple"
        /\ Len(ret.items) = 1
        /\ ret.items[1].k = "MaskedStatement"
        /\ ret.items[1].condition = WhereKept[1]
        /\ Has(Segment(1), "ELSEWHERE_CONSTRUCT") =>
               Len(ret.items[1].default.items) > 0
        /\ ~Has(Segment(1), "ELSEWHERE_CONSTRUCT") =>
               ret.items[1].default = Tuple(<<>>)

C5_Witness ==
    /\ pc = "done"
    /\ NumEnds = 1
    /\ Has(Segment(1), "ELSEWHERE_CONSTRUCT")
    /\ Len(ret.items) = 1
    /\ ret.items[1].condition = Stmt("s1")
    /\ ret.items[1].body = List(<<Stmt("s2")>>)
    /\ Len(ret.items[1].default.items) > 0

\* C6: in every partition with an ELSEWHERE marker the body is exactly the
\* elements strictly between the condition and the marker, the default is
\* exactly the elements strictly after the marker, and neither holds a
\* sentinel.
C6_DefaultAfterMarker ==
    pc = "done" =>
        \A i \in 1..NumEnds :
            Has(Segment(i), "ELSEWHERE_CONSTRUCT") =>
                LET seg == Segment(i)
                    iw == FirstElsewhere(seg)
                    ms == ret.items[i]
                IN /\ ms.body.items = SubSeq(seg, 2, iw - 1)
                   /\ ms.default.items = SubSeq(seg, iw + 1, Len(seg))
                   /\ \A j \in 1..Len(ms.body.items) : ~IsMarker(ms.body.items[j])
                   /\ \A j \in 1..Len(ms.default.items) : ~IsMarker(ms.default.items[j])

C7_State ==
    /\ pc = "done" =>
           /\ ret.k = "tuple"
           /\ Len(ret.items) = NumEnds
           /\ \A i \in 1..NumEnds :
                  LET ms == ret.items[i]
                  IN /\ ms.k = "MaskedStatement"
                     /\ ms.condition = Segment(i)[1]
                     /\ <<ms.condition>> \o ms.body.items \o ms.default.items = Segment(i)
    /\ pc # "done" => ENABLED NextWhere

C7_Step ==
    (pc = "where_loop" /\ pc' = "where_loop") =>
        /\ Len(children') < Len(children)
        /\ Len(stmts') = Len(stmts) + 1

\* C7: for a where-statement whose lowered children hold k ENDWHERE markers
\* the partitioning loop terminates (every iteration shortens the list) and
\* returns a tuple of exactly k MaskedStatements, the i-th built from the
\* elements between the (i-1)-th and the i-th marker, in source order.
C7_OnePerEndwhere == []C7_State /\ [][C7_Step]_vars

C7_Witness ==
    /\ pc = "done"
    /\ NumEnds = 2
    /\ Len(ret.items) = 2
    /\ ret.items[1].condition = Stmt("s1")
    /\ ret.items[2].condition = Stmt("s2")
    /\ ret.items[2].body = List(<<Stmt("s1")>>)

\* the elements of a sequence that are no markers
NoMarkers(seq) == SelectSeq(seq, LAMBDA c : ~IsMarker(c))

\* the condition, the body and the default of the first n MaskedStatements
\* returned, one after the other
RECURSIVE Masked(_)
Masked(n) ==
    IF n = 0
    THEN <<>>
    ELSE Masked(n - 1) \o <<ret.items[n].condition>>
             \o ret.items[n].body.items \o ret.items[n].default.items

\* C29: the lowering of a WHERE statement loses no statement: every lowered
\* child that is neither None nor a marker stands in exactly one returned
\* MaskedStatement, as its condition or as one element of its body or its
\* default, the children behind the last ENDWHERE marker included
C29_NoStatementLost ==
    (pc = "done" /\ NumEnds >= 1) =>
        NoMarkers(Masked(Len(ret.items))) = NoMarkers(WhereKept)

---------------------------------------------------------------------------
(* Properties of the range extent *)

\* the floor of x / s for s # 0: the q with q * s <= x < (q + 1) * s, in
\* the order of the sign of s
FloorOf(x, s) ==
    CHOOSE q \in (0 - (MaxBound + MaxBelow + 2))..(MaxBound + MaxBelow + 2) :
        IF s > 0
        THEN q * s <= x /\ x < (q + 1) * s
        ELSE q * s >= x /\ x > (q + 1) * s

\* C9: RangeIndex(lower=2, upper=10, step=2) evaluates to the extent 5.
C9_ExtentFive ==
    (pc = "done" /\ expr = RangeIndex(IntLiteral(2), IntLiteral(10), IntLiteral(2))) =>
        ret = Tuple(<<IntLiteral(5)>>)

---------------------------------------------------------------------------
(* Properties of ExpressionDimensionsMapper.map_array *)

\* what the subscript at position i of a reference contributes to its shape
Contribution(e, i) ==
    LET d == e.dimensions.items[i]
    IN IF IsColon(d) THEN e.shape.items[i]
       ELSE IF d.k = "RangeIndex" THEN map_range_index(d).items[1]
       ELSE IntLiteral(1)

\* the positions whose contribution is not the literal 1
NotOne(e) ==
    { i \in 1..Len(e.dimensions.items) : Contribution(e, i) # IntLiteral(1) }

---------------------------------------------------------------------------
(* Properties of the ExpressionRetriever *)

\* the structural children of a node, those that are absent left out
Children(e) ==
    CASE e.k = "Array" -> IF IsNone(e.dimensions) THEN <<>> ELSE e.dimensions.items
      [] e.k = "Cast" -> e.parameters \o (IF IsExpression(e.kind) THEN <<e.kind>> ELSE <<>>)
      [] e.k = "Sum" -> e.children
      [] e.k = "RangeIndex" -> Present(e)
      [] e.k = "LiteralList" -> e.elements
      [] OTHER -> <<>>

\* the paths of the model's expressions are no longer than this
MaxDepth == 3

RECURSIVE NodeAt(_, _)

\* the node a path leads to; None where the path leaves the tree
NodeAt(e, p) ==
    IF Len(p) = 0 THEN e
    ELSE IF e.k = "None" \/ p[1] > Len(Children(e)) THEN None
    ELSE NodeAt(Children(e)[p[1]], Tail(p))

\* the paths of the nodes of the tree
Paths(e) ==
    { p \in SeqUpTo(1..(MaxArgs + 2), MaxDepth) : NodeAt(e, p).k # "None" }

\* q lies below p
Below(q, p) == Len(q) > Len(p) /\ SubSeq(q, 1, Len(p)) = p

\* C12: in the result of one call every collected node comes after all the
\* collected nodes that lie in its structural children; for a(i) + b%c the
\* queried i comes before a(i), and a(i) and b%c come before the operation.
C12_PostOrder ==
    visits = 1 =>
        /\ \A i, j \in 1..Len(exprs) : Below(exprs[j], exprs[i]) => j < i
        /\ (expr = Sum(<<Array("a", Tuple(<<Scalar("i")>>), None), Member("c", Scalar("b"))>>)
            /\ query = Kinds)
               => exprs = << <<1, 1>>, <<1>>, <<2>>, <<>> >>

C12_Witness ==
    /\ visits = 1
    /\ expr = Sum(<<Array("a", Tuple(<<Scalar("i")>>), None), Member("c", Scalar("b"))>>)
    /\ query = Kinds
    /\ Len(exprs) = 4

\* the nodes of the tree the query holds for
Matching(e) == { p \in Paths(e) : NodeAt(e, p).k \in query }

\* C13: one call collects every node of the tree for which the predicate
\* holds, exactly once, the elements of a LiteralList included.
C13_EveryMatchOnce ==
    visits = 1 =>
        /\ { exprs[i] : i \in 1..Len(exprs) } = Matching(expr)
        /\ Len(exprs) = Cardinality(Matching(expr))

\* C14: after the n-th visit of one retriever object over the same tree the
\* matches are those of a single visit.
C14_RepeatedVisit ==
    visits >= 1 => exprs = rec(expr, <<>>)

---------------------------------------------------------------------------
(* Properties of the ExpressionCallbackMapper *)

NonLeaf == {"InlineCall", "Cast", "RangeIndex", "Sum", "StringConcat", "LiteralList"}

\* the structural children of a non-leaf node, from left to right
FoldChildren(e) ==
    CASE e.k = "InlineCall" -> e.parameters \o Values(e.kw_parameters)
      [] e.k = "Cast" ->
            <<e.function, e.parameters[1]>> \o
                (IF IsExpression(e.kind) THEN <<e.kind>> ELSE <<>>)
      [] e.k = "RangeIndex" -> Present(e)
      [] e.k \in {"Sum", "StringConcat"} -> e.children
      [] e.k = "LiteralList" -> e.elements
      [] OTHER -> <<>>

RECURSIVE Folded(_)

Folded(e) ==
    IF e.k \in NonLeaf
    THEN [k |-> "combine", args |-> [i \in 1..Len(FoldChildren(e)) |-> Folded(FoldChildren(e)[i])]]
    ELSE [k |-> "callback", node |-> e]

\* C15: the fold of a non-leaf node is combine applied to the folds of its
\* structural children from left to right (positional before keyword
\* arguments; function, argument, expression-valued kind; lower, upper, step
\* without the absent ones), and the fold of a leaf is leaf(node), with no
\* combine.
C15_FoldOrder ==
    (pc = "done" /\ expr.k \in NonLeaf \cup {"Scalar", "IntLiteral", "StringLiteral", "Array"}) =>
        /\ ret = Folded(expr)
        /\ expr.k \notin NonLeaf => ret.k = "callback"

C15_Witness ==
    /\ pc = "done"
    /\ expr = Cast(FunctionSymbol("real"), <<Scalar("i")>>, Scalar("jprb"))
    /\ ret = [k |-> "combine",
              args |-> << [k |-> "callback", node |-> FunctionSymbol("real")],
                          [k |-> "callback", node |-> Scalar("i")],
                          [k |-> "callback", node |-> Scalar("jprb")] >>]

\* the leaf expressions of a tree, from left to right: an array reference
\* and then the leaves of its index expressions, and every other leaf
RECURSIVE LeafExprs(_)
LeafExprs(e) ==
    LET RECURSIVE Each(_, _)
        Each(kids, i) ==
            IF i > Len(kids) THEN <<>> ELSE LeafExprs(kids[i]) \o Each(kids, i + 1)
    IN  IF e.k \in NonLeaf
        THEN Each(FoldChildren(e), 1)
        ELSE IF e.k = "Array" /\ ~IsNone(e.dimensions)
        THEN <<e>> \o Each(e.dimensions.items, 1)
        ELSE <<e>>

\* the nodes the leaf callback was invoked on, from left to right
RECURSIVE CallbackNodes(_)
CallbackNodes(r) ==
    LET RECURSIVE Each(_, _)
        Each(rs, i) ==
            IF i > Len(rs) THEN <<>> ELSE CallbackNodes(rs[i]) \o Each(rs, i + 1)
    IN  IF r.k = "combine" THEN Each(r.args, 1) ELSE <<r.node>>

\* how often the node x stands in a sequence of nodes
Times(seq, x) ==
    Cardinality({ i \in 1..Len(seq) : seq[i].k = x.k /\ seq[i] = x })

\* C30: the fold invokes the leaf callback once on every leaf expression of
\* the tree, the index expressions in the dimensions of an array reference
\* included: the fold of a(i) reaches i as well as a
C30_ReachesIndices ==
    pc = "done" =>
        \A j \in 1..Len(LeafExprs(expr)) :
            Times(CallbackNodes(ret), LeafExprs(expr)[j])
                = Times(LeafExprs(expr), LeafExprs(expr)[j])

---------------------------------------------------------------------------
(* Properties of OFP2IR.visit_operation *)

\* C16: every Operation that lowering returns has one operator less than it
\* has operands.
C16_OperatorCount ==
    (pc = "done" /\ ret.k = "Operation") =>
        Len(ret.ops) = Len(ret.operands) - 1

---------------------------------------------------------------------------
(* Properties of OFP2IR.visit_declaration *)

\* the declaration has no type that can be resolved
LacksType(n) ==
    \/ ~HasAttr(n, "type")
    \/ Attr(n, "type") \notin {"variable", "implicit", "intrinsic", "data"}
    \/ Attr(n, "type") = "variable" /\ ~HasChild(n, "type")

\* the declaration wraps a SAVE or IMPLICIT statement or an access specifier
WrapsStmt(n) ==
    \E c \in { n.kids[i] : i \in 1..Len(n.kids) } :
        c.tag \in {"save-stmt", "implicit-stmt", "access-spec"}

Descriptors == { id \in 1..Len(heap) : heap[id].k = "BaseType" }

C18_State ==
    (pc = "done" /\ ret.k = "Declaration") =>
        /\ ret.type.k = "obj"
        /\ Descriptors = {ret.type.id}
        /\ \A i \in 1..Len(ret.variables) :
               heap[ret.variables[i].id].type = ret.type

C18_Step ==
    \A id \in 1..Len(heap) :
        (heap[id].k = "Variable" /\ heap'[id].type # heap[id].type) =>
            /\ heap[id].type = None
            /\ heap'[id].type = type

\* C18: after a declaration that is not of a derived type is lowered, every
\* Variable of the Declaration has as its type the one type descriptor
\* object that is the Declaration's type, and the type of a variable is set
\* once.
C18_SharedType == []C18_State /\ [][C18_Step]_vars

C18_Witness ==
    /\ pc = "done"
    /\ ret.k = "Declaration"
    /\ Len(ret.variables) = 2
    /\ heap[ret.variables[1].id].type = ret.type
    /\ heap[ret.variables[2].id].type = ret.type

---------------------------------------------------------------------------
(* Properties of the LokiStringifyMapper *)

\* the number of quotes of a text
NumQuotes(s) == Cardinality({ i \in 1..Len(s) : s[i] = Quote })

\* the text between the first and the last character
Inner(s) == SubSeq(s, 2, Len(s) - 1)

\* the text is wrapped in single quotes
Wrapped(s) == Len(s) >= 2 /\ s[1] = Quote /\ s[Len(s)] = Quote

\* the positions where a maximal run of quotes begins
RunStarts(s) == { i \in 1..Len(s) : s[i] = Quote /\ (i = 1 \/ s[i - 1] # Quote) }

\* the length of the maximal run of quotes that begins at i
RunLength(s, i) ==
    CHOOSE n \in 1..Len(s) :
        /\ \A j \in i..(i + n - 1) : j <= Len(s) /\ s[j] = Quote
        /\ (i + n > Len(s) \/ s[i + n] # Quote)

OddRuns(s) == { i \in RunStarts(s) : RunLength(s, i) % 2 = 1 }

\* the characters that are no quotes, in order
Letters(s) == SelectSeq(s, LAMBDA c : c # Quote)

\* C19: a string literal is rendered between single quotes with every quote
\* of its value doubled: n quotes in the value give 2n quotes between the
\* delimiters.
C19_EveryQuoteDoubled ==
    (pc = "done" /\ expr.k = "StringLiteral") =>
        /\ Wrapped(ret.s)
        /\ NumQuotes(Inner(ret.s)) = 2 * NumQuotes(expr.value)

\* C19, amended: a string literal is rendered between single quotes; every
\* maximal run of quotes of odd length in its value is lengthened by one
\* quote and every run of even length is left as it is, the other characters
\* are kept; so every run of the rendering is even, and n quotes of which no
\* two are adjacent give 2n quotes between the delimiters.
C19_OddRunsEscaped ==
    (pc = "done" /\ expr.k = "StringLiteral") =>
        /\ Wrapped(ret.s)
        /\ Letters(Inner(ret.s)) = Letters(expr.value)
        /\ NumQuotes(Inner(ret.s)) = NumQuotes(expr.value) + Cardinality(OddRuns(expr.value))
        /\ Cardinality(RunStarts(Inner(ret.s))) = Cardinality(RunStarts(expr.value))
        /\ OddRuns(Inner(ret.s)) = {}
        /\ (\A i \in RunStarts(expr.value) : RunLength(expr.value, i) = 1)
               => NumQuotes(Inner(ret.s)) = 2 * NumQuotes(expr.value)

C19_Witness ==
    /\ pc = "done"
    /\ expr = StringLiteral(<<"a", Quote, "a", Quote, Quote>>)
    /\ ret = Str(<<Quote, "a", Quote, Quote, "a", Quote, Quote, Quote>>)

\* the text of a bound of a range
BoundText(b) ==
    CASE b = None -> <<>>
      [] b = Scalar(<<"s", "t", "a", "r", "t">>) -> <<"s", "t", "a", "r", "t">>
      [] b = Scalar(<<"e", "n", "d">>) -> <<"e", "n", "d">>
      [] b = Scalar(<<"n", "z">>) -> <<"n", "z">>
      [] b = IntLiteral(2) -> <<"2">>
      [] b = IntLiteral(10) -> <<"1", "0">>

\* C20: a RangeIndex is rendered as lower:upper without a step and as
\* lower:upper:step with one, an absent lower or upper being the empty text;
\* the bounds start..end give start:end and the bare range gives ':'.
C20_RangeText ==
    (pc = "done" /\ expr.k = "RangeIndex") =>
        /\ IsNone(expr.step) =>
               ret.s = BoundText(expr.lower) \o <<":">> \o BoundText(expr.upper)
        /\ ~IsNone(expr.step) =>
               ret.s = BoundText(expr.lower) \o <<":">> \o BoundText(expr.upper)
                           \o <<":">> \o BoundText(expr.step)
        /\ expr = RangeIndex(Scalar(<<"s", "t", "a", "r", "t">>), Scalar(<<"e", "n", "d">>), None)
               => ret.s = <<"s", "t", "a", "r", "t", ":", "e", "n", "d">>
        /\ expr = RangeIndex(None, None, None) => ret.s = <<":">>

C20_Witness ==
    /\ pc = "done"
    /\ expr = RangeIndex(IntLiteral(2), Scalar(<<"n", "z">>), IntLiteral(10))
    /\ ret = Str(<<"2", ":", "n", "z", ":", "1", "0">>)

---------------------------------------------------------------------------
(* Properties of is_subset *)

\* a stands in b as a run of consecutive elements, in the order of a
OccursAsRun(a, b) ==
    \E s \in 1..(Len(b) - Len(a) + 1) :
        \A i \in 1..Len(a) : b[s + i - 1] = a[i]

\* C21: is_subset(a, b, ordered=True, subsequent=True) returns True exactly
\* when the non-empty list a occurs in b as a run of consecutive elements in
\* the same order
C21_ExactlyRuns ==
    (pc = "done" /\ ret.k = "bool" /\ o.ordered /\ o.subsequent)
        => (ret.v <=> (o.a # <<>> /\ OccursAsRun(o.a, o.b)))

---------------------------------------------------------------------------
(* Properties of binary_insertion_sort *)

\* how often x stands in seq
Count(seq, x) == Cardinality({ i \in 1..Len(seq) : seq[i] = x })

IsPermutation(s, t) == \A x \in Keys : Count(s, x) = Count(t, x)

\* no element is lt its predecessor
Ascending(seq, rk) == \A j \in 1..(Len(seq) - 1) : ~Lt(rk, seq[j + 1], seq[j])

\* what is left to do: the items not yet inserted, then the width of the
\* range still searched, then the insertion
SortMeasure ==
    LET n == Len(o.items)
        B == n + 4
    IN  IF pc = "binary_insertion_sort" THEN (n + 1) * B
        ELSE IF pc = "for" THEN (n - frame.i) * B + B - 1
        ELSE IF pc = "binary_search"
             THEN (n - frame.i) * B + (frame.end - frame.start) + 3
        ELSE IF pc = "insert" THEN (n - frame.i) * B
        ELSE 0 - 2 * B

\* C22: binary_insertion_sort(items, lt) terminates (every step takes the
\* measure down, and a step is possible until the list is returned) and
\* returns a permutation of items that is ascending with respect to lt, for
\* each strict total order lt and each list, with or without duplicates
C22_Sorts ==
    /\ [](pc = "done" => /\ ret.k = "list"
                         /\ IsPermutation(ret.items, o.items)
                         /\ Ascending(ret.items, o.lt))
    /\ [](pc # "done" => ENABLED NextSort)
    /\ [][SortMeasure' < SortMeasure]_vars

\* a list with a duplicate that was not in order has been sorted
C22_Witness ==
    /\ pc = "done"
    /\ Len(o.items) = MaxItems
    /\ \E i, j \in 1..Len(o.items) : i # j /\ o.items[i] = o.items[j]
    /\ ~Ascending(o.items, o.lt)
    /\ ret.items # o.items

---------------------------------------------------------------------------
(* Properties of strip_inline_comments *)

\* the string that is open before position p of a line, read character by
\* character from a line start where open was open ("" for none)
RECURSIVE OpenAt(_, _, _)
OpenAt(line, open, p) ==
    IF p = 0
    THEN open
    ELSE LET before == OpenAt(line, open, p - 1)
             ch == line[p]
         IN  IF ch \notin str_delim THEN before
             ELSE IF before = "" THEN ch
             ELSE IF before = ch THEN ""
             ELSE before

\* the positions (from 1) of the comment characters of a line outside
\* every string
CommentsOutside(line, open) ==
    { p \in 1..Len(line) : line[p] = comment_char /\ OpenAt(line, open, p - 1) = "" }

FirstOutside(line, open) ==
    CHOOSE p \in CommentsOutside(line, open) :
        \A q \in CommentsOutside(line, open) : p <= q

\* a string without whitespace at its end
Stripped(string) ==
    CHOOSE n \in 0..Len(string) :
        /\ \A i \in (n + 1)..Len(string) : string[i] \in Whitespace
        /\ n > 0 => string[n] \notin Whitespace

\* the line as the claim wants it
WantedLine(line, open) ==
    IF CommentsOutside(line, open) = {}
    THEN line
    ELSE LET before == SubSeq(line, 1, FirstOutside(line, open) - 1)
         IN  SubSeq(before, 1, Stripped(before))

\* the string open behind the line: what follows the cut is not read
WantedOpen(line, open) ==
    IF CommentsOutside(line, open) = {}
    THEN OpenAt(line, open, Len(line))
    ELSE ""

RECURSIVE WantedLines(_, _)
WantedLines(lines, open) ==
    IF lines = <<>>
    THEN <<>>
    ELSE <<WantedLine(Head(lines), open)>>
             \o WantedLines(Tail(lines), WantedOpen(Head(lines), open))

\* C23: strip_inline_comments cuts each line at the first comment character
\* outside every string (the open string is tracked per delimiter and
\* carried from line to line) and strips the whitespace before it; a line
\* without such a character is kept as it is, and a source without a comment
\* character is returned as it is
C23_Strips ==
    /\ (pc = "for" /\ frame.source_lines = <<>>)
           => frame.clean_lines = WantedLines(splitlines(o.s), "")
    /\ (pc = "done" /\ comment_char \in SetOf(o.s))
           => ret.s = join(WantedLines(splitlines(o.s), ""))
    /\ (pc = "done" /\ comment_char \notin SetOf(o.s)) => ret = o

\* a comment character within a string that was opened on the line before
\* has been kept, and the comment behind the string has been cut
C23_Witness ==
    /\ pc = "done"
    /\ o.s = <<"'", "\n", "!", "'", "!">>
    /\ ret.s = <<"'", "\n", "!", "'">>

---------------------------------------------------------------------------
(* Properties of visit_loop *)

\* the children of the loop node's header
HeaderKids == (CHOOSE c \in SetOf(o.kids) : c.tag = "header").kids

\* the index-variable child of the header, for a header that has one
IndexVariable == CHOOSE c \in SetOf(HeaderKids) : c.tag = "index-variable"

\* the expression under the child of the index variable with that tag
BoundExpr(tag) ==
    (CHOOSE c \in SetOf(IndexVariable.kids) : c.tag = tag).kids[1]

\* the lowering of the leaves that stand under headers, bounds and steps
LoweredExpr(e) ==
    IF e.tag = "literal" THEN [k |-> "Literal", value |-> e.att] ELSE Str(e.att)

\* C25: visit_loop returns a WhileLoop, whose condition is the lowered
\* header, exactly when the loop node has no header/index-variable child;
\* otherwise it returns a Loop whose bounds are RangeIndex(lower, upper,
\* step) of the lowered lower-bound and upper-bound children, with step None
\* exactly when there is no step child
C25_LoopKinds ==
    pc = "done" =>
        IF \A c \in SetOf(HeaderKids) : c.tag # "index-variable"
        THEN /\ ret.k = "WhileLoop"
             /\ ret.condition = IF HeaderKids = <<>>
                                THEN None
                                ELSE LoweredExpr(HeaderKids[1])
        ELSE /\ ret.k = "Loop"
             /\ ret.bounds.k = "RangeIndex"
             /\ ret.bounds.lower = LoweredExpr(BoundExpr("lower-bound"))
             /\ ret.bounds.upper = LoweredExpr(BoundExpr("upper-bound"))
             /\ IsNone(ret.bounds.step)
                    <=> (\A c \in SetOf(IndexVariable.kids) : c.tag # "step")
             /\ ~IsNone(ret.bounds.step)
                    => ret.bounds.step = LoweredExpr(BoundExpr("step"))

\* do i = 1, a, 2 has been lowered to a Loop over 1:a:2
C25_Witness ==
    /\ pc = "done"
    /\ ret.k = "Loop"
    /\ ret.bounds = RangeIndex([k |-> "Literal", value |-> "1"], Str("a"),
                               [k |-> "Literal", value |-> "2"])

---------------------------------------------------------------------------
(* Properties of visit_if *)

\* the positions among the children of the conditional node of its headers
\* and of its bodies
HeaderPositions == { p \in 1..Len(o.kids) : o.kids[p].tag = "header" }

BodyPositions == { p \in 1..Len(o.kids) : o.kids[p].tag = "body" }

\* the position of the i-th child at one of the positions S
NthOf(S, i) == CHOOSE p \in S : Cardinality({ q \in S : q < p }) = i - 1

\* the positions of the body children that became the i-th branch, and the
\* one that became the else branch
BranchOf(i) == NthOf(BodyPositions, i)

ElseOf == NthOf(BodyPositions, Cardinality(BodyPositions))

\* C26: for a conditional node with h headers and b bodies, the Conditional
\* has h conditions, the i-th with the i-th body, for the first h bodies;
\* else_body is the last body when b > h and None otherwise, so that the
\* body of else is none of the branches
C26_Pairing ==
    pc = "done" =>
        LET h == Cardinality(HeaderPositions)
            b == Cardinality(BodyPositions)
        IN  /\ ret.k = "Conditional"
            /\ Len(ret.conditions.items) = h
            /\ Len(ret.bodies.items) = h
            /\ \A i \in 1..h :
                   /\ ret.conditions.items[i] = visit(o.kids[NthOf(HeaderPositions, i)])
                   /\ ret.bodies.items[i] = List(<<visit(o.kids[BranchOf(i)])>>)
            /\ b > h => /\ ret.else_body = List(<<visit(o.kids[ElseOf])>>)
                        /\ \A i \in 1..h : BranchOf(i) # ElseOf
            /\ b <= h => IsNone(ret.else_body)

\* if / else if / else: two conditions with their bodies and the body of else
C26_Witness ==
    /\ pc = "done"
    /\ Cardinality(HeaderPositions) = 2
    /\ Cardinality(BodyPositions) = 3
    /\ Len(ret.bodies.items) = 2
    /\ ret.else_body = List(<<Tuple(<<[k |-> "Literal", value |-> "1"], Str("a")>>)>>)
    /\ ret.bodies.items[2] = List(<<None>>)

---------------------------------------------------------------------------
(* Properties of the dimensions of declared variables *)

\* the variables of the declaration as visit_variable made them, line 263-264
Built == DropNone([i \in 1..Len(VariableElems(o)) |-> visit_variable(VariableElems(o)[i])])

\* the dimensions of the j-th variable before and after lines 266-271
DimsBefore(j) == Built[j].dimensions

DimsAfter(j) == heap[ret.variables[j].id].dimensions

\* a range with both bounds, the one equal to the other
EqualBounds(d) == d.k = "RangeIndex" /\ ~IsNone(d.lower) /\ d.lower = d.upper

\* a range that stands for its upper bound: 1:v
TrivialRange(d) ==
    /\ d.k = "RangeIndex"
    /\ d.lower = [k |-> "Literal", value |-> "1"]
    /\ IsNone(d.step)

\* the j-th variable has its dimensions in number and order, those that
\* satisfy Replaced(d) replaced by their upper bound
Rewritten(j, Replaced(_)) ==
    IF IsNone(DimsBefore(j))
    THEN IsNone(DimsAfter(j))
    ELSE /\ DimsAfter(j).k = "tuple"
         /\ Len(DimsAfter(j).items) = Len(DimsBefore(j).items)
         /\ \A i \in 1..Len(DimsBefore(j).items) :
                DimsAfter(j).items[i] =
                    IF Replaced(DimsBefore(j).items[i])
                    THEN DimsBefore(j).items[i].upper
                    ELSE DimsBefore(j).items[i]

---------------------------------------------------------------------------
(* Properties of data declarations *)

\* how deep the literals of an element are nested: the literal children, the
\* first one followed down
RECURSIVE NestDepth(_)
NestDepth(n) ==
    IF \A i \in 1..Len(n.kids) : n.kids[i].tag # "literal"
    THEN 0
    ELSE 1 + NestDepth(n.kids[CHOOSE i \in 1..Len(n.kids) :
                                  /\ n.kids[i].tag = "literal"
                                  /\ \A j \in 1..(i - 1) : n.kids[j].tag # "literal"])

\* the literal at depth i under an element, 1 being the outermost
RECURSIVE LiteralAt(_, _)
LiteralAt(n, i) ==
    LET first == n.kids[CHOOSE c \in 1..Len(n.kids) :
                            /\ n.kids[c].tag = "literal"
                            /\ \A j \in 1..(c - 1) : n.kids[j].tag # "literal"]
    IN  IF i = 1 THEN first ELSE LiteralAt(first, i - 1)

\* the p-th variables and values children of the declaration
VariablesOf(p) == SelectSeq(o.kids, LAMBDA c : c.tag = "variables")[p]

ValuesOf(p) == SelectSeq(o.kids, LAMBDA c : c.tag = "values")[p]

\* every values element has a literal
AllNested == \A p \in 1..NumPairs(o) : NestDepth(ValuesOf(p)) >= 1

\* what is left to do: the pairs, then the depth of the literal in hand
DataMeasure ==
    LET B == MaxNest + 4
    IN  IF pc = "declaration" THEN (NumPairs(o) + 2) * B
        ELSE IF pc = "data_pair" THEN (NumPairs(o) + 1 - frame.p) * B + B - 1
        ELSE IF pc = "data_while"
             THEN (NumPairs(o) + 1 - frame.p) * B + NestDepth(frame.lit)
        ELSE 0 - 1

C28_State ==
    /\ (pc = "done" /\ o.tag = "declaration" /\ IsData /\ AllNested) =>
           /\ ret.k = "tuple"
           /\ Len(ret.items) = NumPairs(o)
           /\ \A p \in 1..NumPairs(o) :
                  /\ ret.items[p].k = "DataDeclaration"
                  /\ ret.items[p].variable.name = Str(Attr(VariablesOf(p).kids[1], "name"))
                  /\ ret.items[p].values.k = "list"
                  /\ Len(ret.items[p].values.items) = NestDepth(ValuesOf(p))
                  /\ \A i \in 1..NestDepth(ValuesOf(p)) :
                         ret.items[p].values.items[i]
                             = [k |-> "Literal", value |-> LiteralAt(ValuesOf(p), i).att]
    /\ (pc # "done" /\ IsData) => ENABLED NextDecl

C28_Step == IsData => DataMeasure' < DataMeasure

\* C28: a data declaration is lowered to one DataDeclaration per pair of
\* variables and values, in order; for a values element whose literals are
\* nested to depth d the values list has d entries, from the outermost
\* literal to the innermost; and the unwrapping ends for every nesting
\* (every step takes the measure down, and a step is possible until the
\* return)
C28_DataValues == []C28_State /\ [][C28_Step]_vars

\* two pairs, the first nested to depth 3 and the second to depth 1
C28_Witness ==
    /\ pc = "done"
    /\ IsData
    /\ ret.k = "tuple"
    /\ Len(ret.items) = 2
    /\ ret.items[1].variable.name = Str("x")
    /\ ret.items[1].values = List(<<[k |-> "Literal", value |-> "1"],
                                    [k |-> "Literal", value |-> "2"],
                                    [k |-> "Literal", value |-> "3"]>>)
    /\ ret.items[2].variable.name = Str("y")
    /\ ret.items[2].values = List(<<[k |-> "Literal", value |-> "1"]>>)

=============================================================================
